---- MODULE Spec2Model ----
(***************************************************************************)
(* Record reconciliation and derived-metric engine of the consolidation    *)
(* tool: key normalization (src/src/normalization.py), loading and         *)
(* consolidating monthly snapshots (src/src/ingestion.py,                  *)
(* src/src/consolidation.py) and the MSV merge with its peak derivations   *)
(* (src/pages/3_*_MSV_Management.py).                                      *)
(*                                                                         *)
(* Strings are sequences of one-character strings.  A table cell is a      *)
(* tagged value: Null (NaN/None), Str(s) or Num(n).                        *)
(***************************************************************************)
EXTENDS Integers, Sequences, FiniteSets, TLC

VARIABLES
    \* create_product_key exercised on its own
    product_title, key, key_again, kpc,
    \* loading and consolidating the monthly snapshots
    archive, monthly_data, errors, master_df, final_df, cpc,
    \* calculate_peak_popularity exercised on one row
    popularity_row, peak_popularity, ppc,
    \* calculate_true_peak exercised on one row
    msv_row, true_peak, tpc,
    \* the MSV page: the session's table, the uploaded table, the merges made
    consolidated_df, msv_df, before_df, join_key, merge_error, merges,
    \* the three peak derivations exercised on one row of mixed cells
    data_row, derived, rpc,
    \* generate_keywords_batch: the call, the table, the batches and their results
    kw_call, kw_df, batches, results_map, kw_errors, gpc,
    \* generate_insights_df exercised on a table of one row
    insight_df, insights, ipc

keyVars == <<product_title, key, key_again, kpc>>
consVars == <<archive, monthly_data, errors, master_df, final_df, cpc>>
peakVars == <<popularity_row, peak_popularity, ppc>>
truePeakVars == <<msv_row, true_peak, tpc>>
msvVars == <<consolidated_df, msv_df, before_df, join_key, merge_error, merges>>
rowVars == <<data_row, derived, rpc>>
kwVars == <<kw_call, kw_df, batches, results_map, kw_errors, gpc>>
insightVars == <<insight_df, insights, ipc>>
vars == <<keyVars, consVars, peakVars, truePeakVars, msvVars, rowVars, kwVars, insightVars>>

----------------------------------------------------------------------------
(* Cells *)

Null == [t |-> "null", v |-> <<>>]
Str(s) == [t |-> "str", v |-> s]
Num(n) == [t |-> "num", v |-> n]

\* pd.notna(x)
notna(x) == x.t # "null"

----------------------------------------------------------------------------
(* Each part of the program is exercised by a specification of its own; the  *)
(* variables of the other parts then stay idle.                              *)

NotRun == <<"<not run>">>
NotBuilt == [cols |-> <<>>, rows |-> <<>>]

KeyIdle ==
    /\ product_title = Null
    /\ key = NotRun
    /\ key_again = NotRun
    /\ kpc = "idle"

ConsIdle ==
    /\ archive = <<>>
    /\ monthly_data = <<>>
    /\ errors = <<>>
    /\ master_df = NotBuilt
    /\ final_df = NotBuilt
    /\ cpc = "idle"

PeakIdle ==
    /\ popularity_row = <<>>
    /\ peak_popularity = NotRun
    /\ ppc = "idle"

TruePeakIdle ==
    /\ msv_row = <<>>
    /\ true_peak = NotRun
    /\ tpc = "idle"

MsvIdle ==
    /\ consolidated_df = NotBuilt
    /\ msv_df = NotBuilt
    /\ before_df = NotBuilt
    /\ join_key = <<>>
    /\ merge_error = FALSE
    /\ merges = 0

RowIdle ==
    /\ data_row = <<>>
    /\ derived = <<>>
    /\ rpc = "idle"

KwIdle ==
    /\ kw_call = <<>>
    /\ kw_df = NotBuilt
    /\ batches = <<>>
    /\ results_map = <<>>
    /\ kw_errors = <<>>
    /\ gpc = "idle"

InsightIdle ==
    /\ insight_df = NotBuilt
    /\ insights = NotBuilt
    /\ ipc = "idle"

----------------------------------------------------------------------------
(* Key normalization: src/src/normalization.py *)

\* Longest title, in characters, given to create_product_key on its own.
MaxLen == 4

UpperLetters == {"A"}
LowerLetters == {"a"}
Digits == {"1"}
Whitespace == {" ", "\t"}
Punctuation == {"-"}
Alphabet == UpperLetters \cup LowerLetters \cup Digits \cup Whitespace \cup Punctuation

\* str.lower(), one character
LowerChar(c) == IF c = "A" THEN "a" ELSE c

\* key = product_title.lower()
RECURSIVE Lower(_)
Lower(s) == IF s = <<>> THEN <<>> ELSE <<LowerChar(Head(s))>> \o Lower(Tail(s))

\* key = re.sub(r'[^a-z0-9\s]', '', key)
RECURSIVE RemoveSpecial(_)
RemoveSpecial(s) ==
    IF s = <<>> THEN <<>>
    ELSE IF Head(s) \in LowerLetters \cup Digits \cup Whitespace
         THEN <<Head(s)>> \o RemoveSpecial(Tail(s))
         ELSE RemoveSpecial(Tail(s))

\* the rest of s after its leading run of whitespace
RECURSIVE SkipSpace(_)
SkipSpace(s) ==
    IF s # <<>> /\ Head(s) \in Whitespace THEN SkipSpace(Tail(s)) ELSE s

\* re.sub(r'\s', ' ', key): every whitespace character becomes a space of its own
ReplaceEachSpace(s) == [i \in 1..Len(s) |-> IF s[i] \in Whitespace THEN " " ELSE s[i]]

\* key = re.sub(r'\s+', ' ', key): every maximal run of whitespace becomes one space
RECURSIVE CollapseSpaces(_)
CollapseSpaces(s) ==
    IF s = <<>> THEN <<>>
    ELSE IF Head(s) \in Whitespace
         THEN <<" ">> \o CollapseSpaces(SkipSpace(s))
         ELSE <<Head(s)>> \o CollapseSpaces(Tail(s))

RECURSIVE Reverse(_)
Reverse(s) == IF s = <<>> THEN <<>> ELSE Reverse(Tail(s)) \o <<Head(s)>>

\* str.strip()
Strip(s) == Reverse(SkipSpace(Reverse(SkipSpace(s))))

\* create_product_key collapsing and stripping before it removes special characters
create_product_key_strip_first(title) ==
    IF ~notna(title) \/ title.t # "str" THEN <<>>
    ELSE RemoveSpecial(Strip(CollapseSpaces(Lower(title.v))))

create_product_key(title) ==
    IF ~notna(title) \/ title.t # "str" THEN <<>>
    ELSE Strip(CollapseSpaces(RemoveSpecial(Lower(title.v))))

----------------------------------------------------------------------------
(* Tables: a DataFrame is its column names in order and its rows in order;  *)
(* a row maps each column name to a cell.  A column name is a sequence of   *)
(* name parts, so that a merge suffix is a last part.                       *)

Col(name) == <<name>>

RECURSIVE SeqToSet(_)
SeqToSet(s) == IF s = <<>> THEN {} ELSE {Head(s)} \cup SeqToSet(Tail(s))

Table(cols, rows) == [cols |-> cols, rows |-> rows]

\* pd.DataFrame(): no columns, no rows
EmptyFrame == Table(<<>>, <<>>)

RECURSIVE SelectSeq2(_, _)
\* the elements of s, in order, that are in the set keep
SelectSeq2(s, keep) ==
    IF s = <<>> THEN <<>>
    ELSE IF Head(s) \in keep THEN <<Head(s)>> \o SelectSeq2(Tail(s), keep)
         ELSE SelectSeq2(Tail(s), keep)

\* df.drop_duplicates(subset=[on], keep='first')
RECURSIVE DropDuplicatesFrom(_, _, _)
DropDuplicatesFrom(rows, on, seen) ==
    IF rows = <<>> THEN <<>>
    ELSE IF Head(rows)[on] \in seen
         THEN DropDuplicatesFrom(Tail(rows), on, seen)
         ELSE <<Head(rows)>> \o DropDuplicatesFrom(Tail(rows), on, seen \cup {Head(rows)[on]})

drop_duplicates(df, on) == Table(df.cols, DropDuplicatesFrom(df.rows, on, {}))

\* the name a right-hand column gets in left.merge(right, on=on, suffixes=('', sfx))
MergedName(c, leftCols, on, sfx) ==
    IF c \in SeqToSet(leftCols) /\ c # on THEN Append(c, sfx) ELSE c

RECURSIVE RenameCols(_, _, _, _)
\* the right-hand columns as they appear in the merged table: all but the key
RenameCols(rcols, leftCols, on, sfx) ==
    IF rcols = <<>> THEN <<>>
    ELSE IF Head(rcols) = on THEN RenameCols(Tail(rcols), leftCols, on, sfx)
         ELSE <<MergedName(Head(rcols), leftCols, on, sfx)>>
              \o RenameCols(Tail(rcols), leftCols, on, sfx)

RECURSIVE RightCells(_, _, _, _, _)
\* the cells a right-hand row r brings into a merged row, under their merged names
RightCells(r, rcols, leftCols, on, sfx) ==
    IF rcols = <<>> THEN <<>>
    ELSE IF Head(rcols) = on THEN RightCells(r, Tail(rcols), leftCols, on, sfx)
         ELSE (MergedName(Head(rcols), leftCols, on, sfx) :> r[Head(rcols)])
              @@ RightCells(r, Tail(rcols), leftCols, on, sfx)

RECURSIVE NullCells(_)
NullCells(cols) ==
    IF cols = <<>> THEN <<>> ELSE (Head(cols) :> Null) @@ NullCells(Tail(cols))

RECURSIVE MatchesOf(_, _, _, _, _, _)
\* the merged rows of one left row l: one per right row with an equal key, in the
\* right table's order
MatchesOf(l, rrows, rcols, leftCols, on, sfx) ==
    IF rrows = <<>> THEN <<>>
    ELSE LET r == Head(rrows)
             rest == MatchesOf(l, Tail(rrows), rcols, leftCols, on, sfx)
         IN  IF r[on] = l[on]
             THEN <<l @@ RightCells(r, rcols, leftCols, on, sfx)>> \o rest
             ELSE rest

RECURSIVE LeftRows(_, _, _, _, _, _)
LeftRows(lrows, rrows, rcols, leftCols, on, sfx) ==
    IF lrows = <<>> THEN <<>>
    ELSE LET l == Head(lrows)
             m == MatchesOf(l, rrows, rcols, leftCols, on, sfx)
         IN  (IF m = <<>>
              THEN <<l @@ NullCells(RenameCols(rcols, leftCols, on, sfx))>>
              ELSE m)
             \o LeftRows(Tail(lrows), rrows, rcols, leftCols, on, sfx)

\* left.merge(right, on=on, how='left', suffixes=('', sfx)): every left row is kept,
\* in order, once per matching right row (once with nulls when none matches)
merge_left(left, right, on, sfx) ==
    Table(left.cols \o RenameCols(right.cols, left.cols, on, sfx),
          LeftRows(left.rows, right.rows, right.cols, left.cols, on, sfx))

----------------------------------------------------------------------------
(* Loading: src/src/ingestion.py *)

VALID_MONTHS == <<"Jan", "Feb", "Mar", "Apr", "May", "Jun",
                  "Jul", "Aug", "Sep", "Oct", "Nov", "Dec">>

get_month_order == VALID_MONTHS

\* position of a month in the calendar, 1..12
get_month_number(m) == CHOOSE i \in 1..Len(VALID_MONTHS) : VALID_MONTHS[i] = m

\* `month in monthly_data`
HasMonth(md, month) == \E i \in 1..Len(md) : md[i].month = month

\* monthly_data[month]
FrameOf(md, month) == md[CHOOSE i \in 1..Len(md) : md[i].month = month].df

RECURSIVE LoadFiles(_, _, _)
\* the loop of load_monthly_data over the extracted files, in archive order:
\* a second file for a month is reported and skipped
LoadFiles(files, md, errs) ==
    IF files = <<>> THEN [monthly_data |-> md, errors |-> errs]
    ELSE LET f == Head(files)
         IN  IF HasMonth(md, f.month)
             THEN LoadFiles(Tail(files), md, Append(errs, <<"Duplicate file for month", f.month>>))
             ELSE LoadFiles(Tail(files), Append(md, [month |-> f.month, df |-> f.df]), errs)

load_monthly_data(files) ==
    IF files = <<>>
    THEN [monthly_data |-> <<>>, errors |-> <<<<"No valid files found in ZIP archive">>>>]
    ELSE LoadFiles(files, <<>>, <<>>)

----------------------------------------------------------------------------
(* Consolidation: src/src/consolidation.py *)

product_key == Col("product_key")
ProductTitle == Col("Product Title")
ProductBrand == Col("Product Brand")
ProductMaxPrice == Col("Product Max Price")
Availability == Col("Availability")
PeakPopularity == Col("Peak Popularity")
PeakSeasonality == Col("Peak Seasonality")
ProductKeyword == Col("Product Keyword")
ProductKeywordAvgMSV == Col("Product Keyword Avg MSV")
CategoryL1 == Col("Product Category L1")
CategoryL2 == Col("Product Category L2")
CategoryL3 == Col("Product Category L3")
PopularityCol(month) == <<"Product Popularity", month>>
MsvCol(month, year) == <<month, year>>

YEARS == <<"2023", "2024", "2025">>

RECURSIVE ProductsOfFrameKeepEmpty(_)
\* the loop over df.iterrows() without `if product_key:`
ProductsOfFrameKeepEmpty(rows) ==
    IF rows = <<>> THEN <<>>
    ELSE <<[c \in {product_key, ProductTitle, ProductBrand} |->
               IF c = product_key THEN Str(create_product_key(Head(rows).title))
               ELSE IF c = ProductTitle THEN Head(rows).title ELSE Head(rows).brand]>>
         \o ProductsOfFrameKeepEmpty(Tail(rows))

RECURSIVE ProductsOfFrame(_)
\* the loop over df.iterrows(): one entry per row whose key is not empty
ProductsOfFrame(rows) ==
    IF rows = <<>> THEN <<>>
    ELSE LET row == Head(rows)
             k == create_product_key(row.title)
         IN  (IF k # <<>>
              THEN <<[c \in {product_key, ProductTitle, ProductBrand} |->
                         IF c = product_key THEN Str(k)
                         ELSE IF c = ProductTitle THEN row.title ELSE row.brand]>>
              ELSE <<>>)
             \o ProductsOfFrame(Tail(rows))

RECURSIVE AllProducts(_)
\* the loop over monthly_data.items(): the mapping's own (insertion) order
AllProducts(md) ==
    IF md = <<>> THEN <<>>
    ELSE ProductsOfFrame(Head(md).df) \o AllProducts(Tail(md))

build_master_product_list(md) ==
    drop_duplicates(Table(<<product_key, ProductTitle, ProductBrand>>, AllProducts(md)),
                    product_key)


\* float(val): a number, or a string of decimal digits (surrounding whitespace allowed)
DigitValue(c) == CASE c = "0" -> 0 [] c = "1" -> 1 [] c = "2" -> 2 [] c = "3" -> 3
                   [] c = "4" -> 4 [] c = "5" -> 5 [] c = "6" -> 6 [] c = "7" -> 7
                   [] c = "8" -> 8 [] c = "9" -> 9
DecimalDigits == {"0", "1", "2", "3", "4", "5", "6", "7", "8", "9"}

RECURSIVE DecimalValue(_)
DecimalValue(s) == IF s = <<>> THEN 0 ELSE 10 * DecimalValue(SubSeq(s, 1, Len(s) - 1)) + DigitValue(s[Len(s)])

\* whether float(val) returns (it raises ValueError or TypeError otherwise)
FloatParses(val) ==
    \/ val.t = "num"
    \/ /\ val.t = "str"
       /\ Strip(val.v) # <<>>
       /\ \A i \in 1..Len(Strip(val.v)) : Strip(val.v)[i] \in DecimalDigits

FloatOf(val) == IF val.t = "num" THEN val.v ELSE DecimalValue(Strip(val.v))

\* a new element goes behind every element whose value is not greater: the sort is stable
RECURSIVE InsertByValue(_, _)
InsertByValue(x, sorted) ==
    IF sorted = <<>> THEN <<x>>
    ELSE IF x.value < Head(sorted).value THEN <<x>> \o sorted
         ELSE <<Head(sorted)>> \o InsertByValue(x, Tail(sorted))

RECURSIVE SortByValue(_)
\* sorted(items, key=lambda x: x[1]) and list.sort(key=...): ascending and stable
SortByValue(s) ==
    IF s = <<>> THEN <<>>
    ELSE InsertByValue(s[Len(s)], SortByValue(SubSeq(s, 1, Len(s) - 1)))

RECURSIVE SumOf(_)
SumOf(s) == IF s = <<>> THEN 0 ELSE Head(s) + SumOf(Tail(s))

RECURSIVE Join(_, _)
\* sep.join(parts), as the sequence of the parts and the separators between them
Join(parts, sep) ==
    IF parts = <<>> THEN <<>>
    ELSE IF Len(parts) = 1 THEN <<parts[1]>>
         ELSE <<Head(parts), sep>> \o Join(Tail(parts), sep)

RECURSIVE PopularityValues(_, _)
\* values[month] = float(val) for every month whose column holds a parseable value
PopularityValues(row, months) ==
    IF months = <<>> THEN <<>>
    ELSE LET col == PopularityCol(Head(months))
             rest == PopularityValues(row, Tail(months))
         IN  IF col \in DOMAIN row /\ notna(row[col]) /\ FloatParses(row[col])
             THEN <<[month |-> Head(months), value |-> FloatOf(row[col])]>> \o rest
             ELSE rest

FirstN(s, n) == SubSeq(s, 1, IF Len(s) < n THEN Len(s) ELSE n)


\* n * n * variance of the values: sum((n*x - sum)^2) / n
RECURSIVE SquaredDeviations(_, _, _)
SquaredDeviations(vals, n, total) ==
    IF vals = <<>> THEN 0
    ELSE (n * Head(vals) - total) * (n * Head(vals) - total)
         + SquaredDeviations(Tail(vals), n, total)

\* the band with a strict comparison: abs(x - mean) < std_dev
WithinOneStdDevStrict(x, vals) ==
    LET n == Len(vals)
        total == SumOf(vals)
    IN  n * (n * x - total) * (n * x - total) < SquaredDeviations(vals, n, total)

\* abs(x - mean) <= std_dev for the population mean and standard deviation of vals,
\* compared exactly: n * (n*x - sum)^2 <= sum((n*v - sum)^2)
WithinOneStdDev(x, vals) ==
    LET n == Len(vals)
        total == SumOf(vals)
    IN  n * (n * x - total) * (n * x - total) <= SquaredDeviations(vals, n, total)

RECURSIVE StableMonthsOutside(_, _)
\* the months of the top 4 whose rank is more than one std dev from the mean
StableMonthsOutside(items, top_ranks) ==
    IF items = <<>> THEN <<>>
    ELSE (IF WithinOneStdDev(Head(items).value, top_ranks) THEN <<>> ELSE <<Head(items)>>)
         \o StableMonthsOutside(Tail(items), top_ranks)

RECURSIVE StableMonths(_, _)
\* the months of the top 4, in their order, whose rank is within one std dev of the mean
StableMonths(items, top_ranks) ==
    IF items = <<>> THEN <<>>
    ELSE (IF WithinOneStdDev(Head(items).value, top_ranks) THEN <<Head(items)>> ELSE <<>>)
         \o StableMonths(Tail(items), top_ranks)

calculate_peak_popularity(row, months) ==
    LET values == PopularityValues(row, months)
        sorted_months == SortByValue(values)
        top_4_months == FirstN(sorted_months, 4)
        top_ranks == [i \in 1..Len(top_4_months) |-> top_4_months[i].value]
        stable_months == StableMonths(top_4_months, top_ranks)
        by_rank == SortByValue(stable_months)
    IN  IF Len(values) < 3 THEN <<>>
        ELSE IF Len(top_4_months) < 3 THEN <<sorted_months[1].month>>
        ELSE IF stable_months = <<>> THEN <<sorted_months[1].month>>
        ELSE Join([i \in 1..Len(by_rank) |-> by_rank[i].month], ", ")


RECURSIVE PopularityRows(_, _)
\* product_key = df[title_col].apply(create_product_key) beside df[popularity_col]
PopularityRows(rows, month) ==
    IF rows = <<>> THEN <<>>
    ELSE <<(product_key :> Str(create_product_key(Head(rows).title)))
            @@ (PopularityCol(month) :> Head(rows).rank)>>
         \o PopularityRows(Tail(rows), month)

\* get_monthly_popularity keyed on the raw title instead of create_product_key(title)
get_monthly_popularity_raw_title(md, month) ==
    IF ~HasMonth(md, month) THEN Table(<<product_key, PopularityCol(month)>>, <<>>)
    ELSE drop_duplicates(Table(<<product_key, PopularityCol(month)>>,
                               [i \in 1..Len(FrameOf(md, month)) |->
                                   (product_key :> FrameOf(md, month)[i].title)
                                   @@ (PopularityCol(month) :> FrameOf(md, month)[i].rank)]),
                         product_key)

\* get_monthly_popularity without its drop_duplicates
get_monthly_popularity_keep_all(md, month) ==
    IF ~HasMonth(md, month) THEN Table(<<product_key, PopularityCol(month)>>, <<>>)
    ELSE Table(<<product_key, PopularityCol(month)>>, PopularityRows(FrameOf(md, month), month))

get_monthly_popularity(md, month) ==
    IF ~HasMonth(md, month) THEN Table(<<product_key, PopularityCol(month)>>, <<>>)
    ELSE drop_duplicates(Table(<<product_key, PopularityCol(month)>>,
                               PopularityRows(FrameOf(md, month), month)),
                         product_key)

RECURSIVE DecemberRows(_)
DecemberRows(rows) ==
    IF rows = <<>> THEN <<>>
    ELSE <<(product_key :> Str(create_product_key(Head(rows).title)))
            @@ (ProductMaxPrice :> Head(rows).price)
            @@ (Availability :> Head(rows).avail)>>
         \o DecemberRows(Tail(rows))

get_december_data(md) ==
    IF ~HasMonth(md, "Dec") THEN Table(<<product_key, ProductMaxPrice, Availability>>, <<>>)
    ELSE drop_duplicates(Table(<<product_key, ProductMaxPrice, Availability>>,
                               DecemberRows(FrameOf(md, "Dec"))),
                         product_key)

\* str(n) of a non-negative whole number
RECURSIVE DecimalString(_)
DecimalString(n) ==
    LET d == <<"0", "1", "2", "3", "4", "5", "6", "7", "8", "9">>[(n % 10) + 1]
    IN  IF n < 10 THEN <<d>> ELSE Append(DecimalString(n \div 10), d)

\* repr(x) of a cell that is not null: a string comes out quoted
repr(x) == IF x.t = "str" THEN <<"'">> \o x.v \o <<"'">> ELSE DecimalString(x.v)

\* str(x) of a cell that is not null
str(x) == IF x.t = "str" THEN x.v ELSE DecimalString(x.v)

NA == <<"N", "/", "A">>
PotentialGap == <<"P", "o", "t", "e", "n", "t", "i", "a", "l", " ", "G", "a", "p">>

\* lambda x: str(x) if pd.notna(x) else "N/A"
PriceRule(x) == IF notna(x) THEN Str(str(x)) ELSE Str(NA)

\* the availability rule without .strip()
AvailabilityRuleNoStrip(x) == IF notna(x) /\ str(x) # <<>> THEN x ELSE Str(PotentialGap)

\* lambda x: x if pd.notna(x) and str(x).strip() != "" else "Potential Gap"
AvailabilityRule(x) == IF notna(x) /\ Strip(str(x)) # <<>> THEN x ELSE Str(PotentialGap)

\* df[col] = values, one per row, for a new or an existing column
WithColumn(df, col, values) ==
    Table(IF col \in SeqToSet(df.cols) THEN df.cols ELSE Append(df.cols, col),
          [i \in 1..Len(df.rows) |-> (col :> values[i]) @@ df.rows[i]])

\* the category classifier is an external collaborator: its three levels per title
classify_category_levels(title, product_type) == <<Str(<<"L1">>), Str(<<"L2">>), Str(<<"L3">>)>>

add_category_level_columns(df, product_type) ==
    LET category_levels == [i \in 1..Len(df.rows) |->
                               classify_category_levels(df.rows[i][ProductTitle], product_type)]
        l1 == [i \in 1..Len(df.rows) |-> category_levels[i][1]]
        l2 == [i \in 1..Len(df.rows) |-> category_levels[i][2]]
        l3 == [i \in 1..Len(df.rows) |-> category_levels[i][3]]
    IN  WithColumn(WithColumn(WithColumn(df, CategoryL1, l1), CategoryL2, l2), CategoryL3, l3)

RECURSIVE MergePopularity(_, _, _)
\* for month in months: master_df = master_df.merge(get_monthly_popularity(...), how='left')
MergePopularity(df, md, months) ==
    IF months = <<>> THEN df
    ELSE MergePopularity(merge_left(df, get_monthly_popularity(md, Head(months)),
                                    product_key, "_y"),
                         md, Tail(months))

RECURSIVE MsvColumns(_, _)
\* the 36 month columns, Jan 2023 .. Dec 2025
MsvColumns(years, months) ==
    IF years = <<>> THEN <<>>
    ELSE [i \in 1..Len(months) |-> MsvCol(months[i], Head(years))]
         \o MsvColumns(Tail(years), months)

RECURSIVE BlankCells(_)
BlankCells(cols) ==
    IF cols = <<>> THEN <<>> ELSE (Head(cols) :> Str(<<>>)) @@ BlankCells(Tail(cols))

\* master_df[col] = "" for each of cols in turn
WithBlankColumns(df, cols) ==
    Table(df.cols \o SelectSeq2(cols, SeqToSet(cols) \ SeqToSet(df.cols)),
          [i \in 1..Len(df.rows) |-> BlankCells(cols) @@ df.rows[i]])

\* master_df[[col for col in output_columns if col in master_df.columns]]
SelectColumns(df, output_columns) ==
    LET kept == SelectSeq2(output_columns, SeqToSet(df.cols))
    IN  Table(kept, [i \in 1..Len(df.rows) |-> [c \in SeqToSet(kept) |-> df.rows[i][c]]])

OutputColumns ==
    <<ProductTitle, ProductMaxPrice, CategoryL1, CategoryL2, CategoryL3,
      ProductKeyword, ProductKeywordAvgMSV, ProductBrand, Availability>>
    \o [i \in 1..Len(VALID_MONTHS) |-> PopularityCol(VALID_MONTHS[i])]
    \o MsvColumns(YEARS, VALID_MONTHS)
    \o <<PeakSeasonality, PeakPopularity>>

consolidate_data(md, product_type) ==
    LET months == get_month_order
        master == build_master_product_list(md)
        categorised == add_category_level_columns(master, product_type)
        with_dec == merge_left(categorised, get_december_data(md), product_key, "_y")
        price == [i \in 1..Len(with_dec.rows) |-> PriceRule(with_dec.rows[i][ProductMaxPrice])]
        avail == [i \in 1..Len(with_dec.rows) |-> AvailabilityRule(with_dec.rows[i][Availability])]
        defaulted == WithColumn(WithColumn(with_dec, ProductMaxPrice, price), Availability, avail)
        with_pop == MergePopularity(defaulted, md, months)
        peak == [i \in 1..Len(with_pop.rows) |->
                    Str(calculate_peak_popularity(with_pop.rows[i], months))]
        with_peak == WithColumn(with_pop, PeakPopularity, peak)
        placeholders == <<ProductKeyword, ProductKeywordAvgMSV>>
                        \o MsvColumns(YEARS, VALID_MONTHS) \o <<PeakSeasonality>>
    IN  IF master.rows = <<>> THEN EmptyFrame
        ELSE SelectColumns(WithBlankColumns(with_peak, placeholders), OutputColumns)

----------------------------------------------------------------------------
(* True Peak: src/pages/3_*_MSV_Management.py.  The scores are real numbers  *)
(* here, compared exactly: a score is a rational part plus a multiple of     *)
(* sqrt(12 / Q), and two of them are compared on their squares.              *)

\* non-negative whole numbers of any size, as base-1000 digits, lowest first
RECURSIVE BigOf(_)
BigOf(n) == IF n = 0 THEN <<>> ELSE <<n % 1000>> \o BigOf(n \div 1000)

RECURSIVE BigTimes(_, _, _)
BigTimes(b, n, carry) ==
    IF b = <<>> THEN BigOf(carry)
    ELSE LET t == Head(b) * n + carry
         IN  IF n = 0 THEN <<>> ELSE <<t % 1000>> \o BigTimes(Tail(b), n, t \div 1000)

RECURSIVE BigLess(_, _)
BigLess(a, b) ==
    IF Len(a) # Len(b) THEN Len(a) < Len(b)
    ELSE IF a = <<>> THEN FALSE
    ELSE IF a[Len(a)] # b[Len(b)] THEN a[Len(a)] < b[Len(b)]
    ELSE BigLess(SubSeq(a, 1, Len(a) - 1), SubSeq(b, 1, Len(b) - 1))

Abs(n) == IF n < 0 THEN -n ELSE n

\* x * sqrt(12) > p * sqrt(q), for whole numbers x, p and q > 0
SurdGreater(x, p, q) ==
    LET left == BigTimes(BigTimes(BigOf(12), Abs(x), 0), Abs(x), 0)
        right == BigTimes(BigTimes(BigOf(q), Abs(p), 0), Abs(p), 0)
    IN  IF x >= 0 /\ p < 0 THEN TRUE
        ELSE IF x < 0 /\ p >= 0 THEN FALSE
        ELSE IF x >= 0 THEN BigLess(right, left)
        ELSE BigLess(left, right)

RECURSIVE Gcd(_, _)
Gcd(a, b) == IF b = 0 THEN a ELSE Gcd(b, a % b)
Lcm(a, b) == (a * b) \div Gcd(a, b)

\* msv_data[month][year]: the cell as a number, 0 when absent, null or unparseable
MsvValue(row, month, year) ==
    LET col == MsvCol(month, year)
    IN  IF col \in DOMAIN row /\ notna(row[col]) /\ FloatParses(row[col])
        THEN FloatOf(row[col]) ELSE 0

\* 3 * monthly_averages[month]
MonthTotal(row, month) ==
    MsvValue(row, month, "2023") + MsvValue(row, month, "2024") + MsvValue(row, month, "2025")

NonZero(v) == IF v = 0 THEN 1 ELSE v

\* the denominator of yoy_2024 + yoy_2025 of a month
GrowthDen(row, month) ==
    NonZero(MsvValue(row, month, "2023")) * NonZero(MsvValue(row, month, "2024"))

\* (yoy_2024 + yoy_2025) / 100 times GrowthDen, for the three years' values of a
\* month: a comparison whose earlier value is 0 counts 0
GrowthOf(v23, v24, v25) ==
    (IF v23 = 0 THEN 0 ELSE (v24 - v23) * NonZero(v24))
    + (IF v24 = 0 THEN 0 ELSE (v25 - v24) * NonZero(v23))

\* the numerator of yoy_2024 + yoy_2025 of a month: their sum is 100 * GrowthNum / GrowthDen
GrowthNum(row, month) ==
    GrowthOf(MsvValue(row, month, "2023"), MsvValue(row, month, "2024"),
             MsvValue(row, month, "2025"))

\* consistency[month]
Consistency(row, month) ==
    IF /\ MsvValue(row, month, "2024") > MsvValue(row, month, "2023")
       /\ MsvValue(row, month, "2025") > MsvValue(row, month, "2024")
    THEN 1 ELSE 0

\* the values of f by calendar month, Jan first
ByMonth(f) ==
    <<f[1], f[2], f[3], f[4], f[5], f[6], f[7], f[8], f[9], f[10], f[11], f[12]>>

RECURSIVE LcmOf(_)
LcmOf(s) == IF s = <<>> THEN 1 ELSE Lcm(Head(s), LcmOf(Tail(s)))

RECURSIVE MaxOf(_)
MaxOf(s) ==
    IF Len(s) = 1 THEN s[1]
    ELSE LET rest == MaxOf(Tail(s)) IN IF Head(s) > rest THEN Head(s) ELSE rest

\* step 2: z_scores[month] = znum[i] * sqrt(12 / zscale), which is 0 when std_dev == 0
ZScores(totals, grand) ==
    LET devs == ByMonth([i \in 1..12 |-> 12 * totals[i] - grand])
        q == SumOf(ByMonth([i \in 1..12 |-> devs[i] * devs[i]]))
    IN  [zscale |-> NonZero(q),
         znum |-> ByMonth([i \in 1..12 |-> IF q = 0 THEN 0 ELSE devs[i]])]

\* steps 3 to 5: normalized_yoy[month] * 0.4 + consistency[month] * 0.2 = rat[i] / (5 * scale),
\* where normalized_yoy is avg_yoy / max_avg_yoy, and 0 when max_avg_yoy == 0
GrowthScores(nums, dens, consistency, common) ==
    LET avg_yoy == ByMonth([i \in 1..12 |-> nums[i] * (common \div dens[i])])
        max_avg_yoy == MaxOf(avg_yoy)
        scale == NonZero(Abs(max_avg_yoy))
    IN  [scale |-> scale,
         rat |-> ByMonth([i \in 1..12 |->
                    (IF max_avg_yoy = 0 THEN 0
                     ELSE IF max_avg_yoy > 0 THEN 2 * avg_yoy[i]
                     ELSE -2 * avg_yoy[i])
                    + consistency[i] * scale])]

\* the parts of the scores, per month (1..12) and on whole numbers; zero[i] is
\* monthly_averages[month] == 0
ScoresOf(totals, nums, dens, consistency) ==
    LET z == ZScores(totals, SumOf(totals))
        g == GrowthScores(nums, dens, consistency, LcmOf(dens))
    IN  [zero |-> ByMonth([i \in 1..12 |-> totals[i] = 0]),
         zscale |-> z.zscale, znum |-> z.znum, rat |-> g.rat, scale |-> g.scale]

\* steps 1 to 6 of calculate_true_peak
TruePeakScores(row) ==
    ScoresOf(ByMonth([i \in 1..12 |-> MonthTotal(row, VALID_MONTHS[i])]),
             ByMonth([i \in 1..12 |-> GrowthNum(row, VALID_MONTHS[i])]),
             ByMonth([i \in 1..12 |-> GrowthDen(row, VALID_MONTHS[i])]),
             ByMonth([i \in 1..12 |-> Consistency(row, VALID_MONTHS[i])]))

\* true_peak_scores[a] > true_peak_scores[b], where
\* score = 0.4 * z_score + 0.4 * normalized_yoy + 0.2 * consistency
ScoreGreater(sc, a, b) ==
    SurdGreater(2 * sc.scale * (sc.znum[a] - sc.znum[b]), sc.rat[b] - sc.rat[a], sc.zscale)

\* true_peak_scores[month] > 0.5
ScoreAboveHalf(sc, a) ==
    SurdGreater(4 * sc.scale * sc.znum[a], 5 * sc.scale - 2 * sc.rat[a], sc.zscale)

RECURSIVE HighScoreMonths(_, _)
\* [(month, score) for month, score in true_peak_scores.items() if score > 0.5]
HighScoreMonths(sc, months) ==
    IF months = <<>> THEN <<>>
    ELSE (IF ScoreAboveHalf(sc, Head(months)) THEN <<Head(months)>> ELSE <<>>)
         \o HighScoreMonths(sc, Tail(months))

RECURSIVE InsertByScore(_, _, _)
InsertByScore(sc, m, sorted) ==
    IF sorted = <<>> THEN <<m>>
    ELSE IF ScoreGreater(sc, m, Head(sorted)) THEN <<m>> \o sorted
         ELSE <<Head(sorted)>> \o InsertByScore(sc, m, Tail(sorted))

RECURSIVE SortByScoreDesc(_, _)
\* high_score_months.sort(key=lambda x: x[1], reverse=True): descending and stable
SortByScoreDesc(sc, months) ==
    IF months = <<>> THEN <<>>
    ELSE InsertByScore(sc, months[Len(months)],
                       SortByScoreDesc(sc, SubSeq(months, 1, Len(months) - 1)))

RECURSIVE HighestMonth(_, _)
\* max(true_peak_scores.items(), key=lambda x: x[1])[0]: the first of the highest
HighestMonth(sc, months) ==
    IF Len(months) = 1 THEN months[1]
    ELSE LET rest == HighestMonth(sc, Tail(months))
         IN  IF ScoreGreater(sc, rest, Head(months)) THEN rest ELSE Head(months)

MonthNames(indexes) == [i \in 1..Len(indexes) |-> VALID_MONTHS[indexes[i]]]

\* step 7: the months scoring above 0.5, best first and at most `top` of them, or
\* else the single highest-scoring month
SelectTruePeakMonths(sc, top) ==
    LET all_months == <<1, 2, 3, 4, 5, 6, 7, 8, 9, 10, 11, 12>>
        high_score_months == HighScoreMonths(sc, all_months)
    IN  IF high_score_months # <<>>
        THEN Join(MonthNames(FirstN(SortByScoreDesc(sc, high_score_months), top)), ", ")
        ELSE <<VALID_MONTHS[HighestMonth(sc, all_months)]>>

\* calculate_true_peak without its check for all-zero averages
calculate_true_peak_no_zero_check(row) == SelectTruePeakMonths(TruePeakScores(row), 3)

\* calculate_true_peak keeping the top 4 instead of the top 3
calculate_true_peak_top_four(row) ==
    LET sc == TruePeakScores(row)
    IN  IF \A i \in 1..12 : sc.zero[i] THEN <<>> ELSE SelectTruePeakMonths(sc, 4)

calculate_true_peak(row) ==
    LET sc == TruePeakScores(row)
    IN  IF \A i \in 1..12 : sc.zero[i] THEN <<>> ELSE SelectTruePeakMonths(sc, 3)

----------------------------------------------------------------------------
(* MSV merge: src/pages/3_MSV_Management.py *)

ProductKey == Col("Product Key")
TruePeak == Col("True Peak")
JoinLower == Col("_join_lower")

RECURSIVE SeasonalityValues(_, _)
\* msv_values[month_col] = float(row[month_col]) for every month column, Jan 2023 to
\* Dec 2025, that holds a parseable value
SeasonalityValues(row, cols) ==
    IF cols = <<>> THEN <<>>
    ELSE LET col == Head(cols)
             rest == SeasonalityValues(row, Tail(cols))
         IN  IF col \in DOMAIN row /\ notna(row[col]) /\ FloatParses(row[col])
             THEN <<[month |-> col, value |-> FloatOf(row[col])]>> \o rest
             ELSE rest

\* a new element goes behind every element whose value is not smaller
RECURSIVE InsertByValueDesc(_, _)
InsertByValueDesc(x, sorted) ==
    IF sorted = <<>> THEN <<x>>
    ELSE IF x.value > Head(sorted).value THEN <<x>> \o sorted
         ELSE <<Head(sorted)>> \o InsertByValueDesc(x, Tail(sorted))

RECURSIVE SortByValueDesc(_)
\* sorted(items, key=lambda x: x[1], reverse=True): descending and stable
SortByValueDesc(s) ==
    IF s = <<>> THEN <<>>
    ELSE InsertByValueDesc(s[Len(s)], SortByValueDesc(SubSeq(s, 1, Len(s) - 1)))

\* a band on both sides of the mean: abs(msv - mean_msv) <= std_dev
WithinBandBothSides(x, vals) ==
    LET n == Len(vals)
        total == SumOf(vals)
    IN  n * (total - n * x) * (total - n * x) <= SquaredDeviations(vals, n, total)

\* msv >= mean_msv - std_dev for the population mean and standard deviation of vals,
\* compared exactly: sum <= n*x, or n * (sum - n*x)^2 <= sum((n*v - sum)^2)
AtLeastThreshold(x, vals) ==
    LET n == Len(vals)
        total == SumOf(vals)
    IN  \/ total <= n * x
        \/ n * (total - n * x) * (total - n * x) <= SquaredDeviations(vals, n, total)

RECURSIVE PeakMonthsOf(_, _)
\* [month for month, msv in top_4 if msv >= threshold]
PeakMonthsOf(items, top_values) ==
    IF items = <<>> THEN <<>>
    ELSE (IF AtLeastThreshold(Head(items).value, top_values) THEN <<Head(items)>> ELSE <<>>)
         \o PeakMonthsOf(Tail(items), top_values)

\* calculate_peak_seasonality without its try/except around float(): a cell that
\* holds text which is no number ends the call with the ValueError
calculate_peak_seasonality_no_except(row) ==
    LET msv_values == SeasonalityValues(row, MsvColumns(YEARS, VALID_MONTHS))
        top_4 == FirstN(SortByValueDesc(msv_values), 4)
        top_values == [i \in 1..Len(top_4) |-> top_4[i].value]
        peak_months == PeakMonthsOf(top_4, top_values)
    IN  IF \E col \in DOMAIN row : Len(col) = 2 /\ col[2] \in SeqToSet(YEARS)
                                   /\ notna(row[col]) /\ ~FloatParses(row[col])
        THEN <<"ValueError">>
        ELSE IF msv_values = <<>> THEN <<>>
        ELSE IF Len(top_4) < 2 THEN <<top_4[1].month[1]>>
        ELSE Join([i \in 1..Len(peak_months) |-> peak_months[i].month[1]], ", ")

calculate_peak_seasonality(row) ==
    LET msv_values == SeasonalityValues(row, MsvColumns(YEARS, VALID_MONTHS))
        sorted_months == SortByValueDesc(msv_values)
        top_4 == FirstN(sorted_months, 4)
        top_values == [i \in 1..Len(top_4) |-> top_4[i].value]
        peak_months == PeakMonthsOf(top_4, top_values)
    IN  IF msv_values = <<>> THEN <<>>
        ELSE IF Len(top_4) < 2 THEN <<top_4[1].month[1]>>
        ELSE Join([i \in 1..Len(peak_months) |-> peak_months[i].month[1]], ", ")

\* join_key is None
None == <<>>

RECURSIVE FirstInBoth(_, _, _)
FirstInBoth(candidates, consolidated_cols, msv_cols) ==
    IF candidates = <<>> THEN None
    ELSE IF Head(candidates) \in msv_cols /\ Head(candidates) \in consolidated_cols
         THEN Head(candidates)
         ELSE FirstInBoth(Tail(candidates), consolidated_cols, msv_cols)

RECURSIVE LastInBoth(_, _, _)
LastInBoth(candidates, consolidated_cols, msv_cols) ==
    IF candidates = <<>> THEN None
    ELSE LET later == LastInBoth(Tail(candidates), consolidated_cols, msv_cols)
         IN  IF later # None THEN later
             ELSE IF Head(candidates) \in msv_cols /\ Head(candidates) \in consolidated_cols
                  THEN Head(candidates)
                  ELSE None

JoinCandidates == <<ProductKey, ProductTitle, ProductKeyword>>

\* the join-key loop without its break: a later candidate replaces an earlier one
PickJoinKeyNoBreak(consolidated, msv) ==
    LastInBoth(JoinCandidates, SeqToSet(consolidated.cols), SeqToSet(msv.cols))

\* for candidate in ('Product Key', 'Product Title', 'Product Keyword'):
\*     if candidate in msv_df.columns and candidate in consolidated_df.columns:
\*         join_key = candidate; break
PickJoinKey(consolidated, msv) ==
    FirstInBoth(JoinCandidates, SeqToSet(consolidated.cols), SeqToSet(msv.cols))

\* df.drop(columns=dropped, errors='ignore')
DropColumns(df, dropped) ==
    SelectColumns(df, SelectSeq2(df.cols, SeqToSet(df.cols) \ dropped))

\* c.endswith('_msv')
EndsWithMsv(c) == c[Len(c)] = "_msv"

\* the columns of the consolidated table that the MSV table brings again, and
\* leftovers of an earlier merge
Stale(consolidated, msv, join_key_) ==
    {c \in SeqToSet(consolidated.cols) :
        (c \in SeqToSet(msv.cols) /\ c # join_key_) \/ EndsWithMsv(c)}

\* Series.astype(str), one cell
AsTypeStr(x) == IF notna(x) THEN str(x) ELSE <<"n", "a", "n">>

\* the temporary key without .str.lower().str.strip()
JoinExactOf(row) == Str(AsTypeStr(row[ProductKeyword]))

\* df['Product Keyword'].astype(str).str.lower().str.strip(), one row
JoinLowerOf(row) == Str(Strip(Lower(AsTypeStr(row[ProductKeyword]))))

\* the merge on a temporary lower-case key, which is dropped afterwards together
\* with the MSV table's own Product Keyword
MergeOnKeyword(consolidated, msv) ==
    LET cons_ == WithColumn(consolidated, JoinLower,
                            [i \in 1..Len(consolidated.rows) |-> JoinLowerOf(consolidated.rows[i])])
        msv_ == DropColumns(WithColumn(msv, JoinLower,
                                       [i \in 1..Len(msv.rows) |-> JoinLowerOf(msv.rows[i])]),
                            {ProductKeyword})
    IN  DropColumns(merge_left(cons_, msv_, JoinLower, "_msv"), {JoinLower})

\* astype(str).str.strip().replace('nan', '').replace('None', '') == '', one cell
EffectivelyEmpty(x) ==
    Strip(AsTypeStr(x)) \in {<<>>, <<"n", "a", "n">>, <<"N", "o", "n", "e">>}

\* the derivations redone at every merge
should_calculate_always(merged) == TRUE

should_calculate(merged) ==
    \/ PeakSeasonality \notin SeqToSet(merged.cols)
    \/ \A i \in 1..Len(merged.rows) : EffectivelyEmpty(merged.rows[i][PeakSeasonality])

\* [c for c in merged_df.columns if 'Jan 20' in str(c) or 'Dec 20' in str(c)]
sample_cols(merged) ==
    {c \in SeqToSet(merged.cols) :
        Len(c) >= 2 /\ c[1] \in {"Jan", "Dec"} /\ c[2] \in SeqToSet(YEARS)}

\* True Peak calculated whenever a Jan or Dec column exists, Peak Seasonality only
\* when it is missing or empty
WithPeaksTruePeakAnyway(merged) ==
    LET with_seasonality ==
            IF should_calculate(merged)
            THEN WithColumn(merged, PeakSeasonality,
                            [i \in 1..Len(merged.rows) |->
                                Str(calculate_peak_seasonality(merged.rows[i]))])
            ELSE merged
    IN  IF sample_cols(merged) # {}
        THEN WithColumn(with_seasonality, TruePeak,
                        [i \in 1..Len(merged.rows) |->
                            Str(calculate_true_peak(with_seasonality.rows[i]))])
        ELSE with_seasonality

\* Peak Seasonality and True Peak are calculated when Peak Seasonality is missing or
\* empty in every row and a Jan or Dec month column exists
WithPeaks(merged) ==
    LET seasonality_of == [row \in SeqToSet(merged.rows) |->
                              Str(calculate_peak_seasonality(row))]
        seasonality == [i \in 1..Len(merged.rows) |-> seasonality_of[merged.rows[i]]]
        with_seasonality == WithColumn(merged, PeakSeasonality, seasonality)
        true_peak_of == [row \in SeqToSet(with_seasonality.rows) |->
                            Str(calculate_true_peak(row))]
        peak == [i \in 1..Len(merged.rows) |-> true_peak_of[with_seasonality.rows[i]]]
    IN  IF should_calculate(merged) /\ sample_cols(merged) # {}
        THEN WithColumn(with_seasonality, TruePeak, peak)
        ELSE merged

\* merged_df as the join leaves it, before the derivations: the stale columns
\* dropped, the MSV table joined on join_key_
JoinedTable(consolidated, msv, join_key_) ==
    LET kept == DropColumns(consolidated, Stale(consolidated, msv, join_key_))
    IN  IF join_key_ = ProductKeyword THEN MergeOnKeyword(kept, msv)
        ELSE merge_left(kept, msv, join_key_, "_msv")

\* raised: the ValueError for no common join column; df: the merged table otherwise
merge_msv_data(consolidated, msv) ==
    LET join_key_ == PickJoinKey(consolidated, msv)
    IN  IF join_key_ = None THEN [raised |-> TRUE, join_key |-> None, df |-> consolidated]
        ELSE [raised |-> FALSE, join_key |-> join_key_,
              df |-> WithPeaks(JoinedTable(consolidated, msv, join_key_))]

----------------------------------------------------------------------------
(* Loading an archive and consolidating it *)

\* Most files in an archive.
MaxFiles == 2
\* Most snapshot rows in an archive, over all its files.
MaxRows == 2

\* the months the archive's files are named for
FileMonths == {"Jan", "Feb", "Dec"}

SnapshotRow(title, brand, rank, price, avail) ==
    [title |-> title, brand |-> brand, rank |-> rank, price |-> price, avail |-> avail]

\* snapshot rows: two spellings of one product with different brands, a second
\* product, and a title that has no letter or digit
RowPool ==
    { SnapshotRow(Str(<<"A">>), Str(<<"X">>), Num(1), Num(3), Str(<<"I", "n">>)),
      SnapshotRow(Str(<<"a", " ">>), Str(<<"Y">>), Num(2), Null, Str(<<" ">>)),
      SnapshotRow(Str(<<"1", "-">>), Null, Str(<<"x">>), Str(<<"2">>), Null),
      SnapshotRow(Str(<<"-">>), Str(<<"Z">>), Num(1), Num(1), Str(<<"I", "n">>)) }

RECURSIVE FramesOf(_)
\* the frames of exactly n rows
FramesOf(n) ==
    IF n = 0 THEN {<<>>}
    ELSE {Append(f, r) : f \in FramesOf(n - 1), r \in RowPool}

RECURSIVE ArchivesOf(_, _)
\* the archives of at most nfiles files and nrows rows in all
ArchivesOf(nfiles, nrows) ==
    IF nfiles = 0 THEN {<<>>}
    ELSE {<<>>} \cup
         UNION {{<<[month |-> m, df |-> f]>> \o rest :
                    m \in FileMonths, f \in FramesOf(k), rest \in ArchivesOf(nfiles - 1, nrows - k)}
                : k \in 0..nrows}

ConsInit ==
    /\ archive \in ArchivesOf(MaxFiles, MaxRows)
    /\ monthly_data = <<>>
    /\ errors = <<>>
    /\ master_df = NotBuilt
    /\ final_df = NotBuilt
    /\ cpc = "start"

\* monthly_data, load_errors = load_monthly_data(zip_bytes)
LoadMonthlyData ==
    /\ cpc = "start"
    /\ monthly_data' = load_monthly_data(archive).monthly_data
    /\ errors' = load_monthly_data(archive).errors
    /\ cpc' = "loaded"
    /\ UNCHANGED <<archive, master_df, final_df>>

\* validate_all_files(monthly_data)[0]: the December file is mandatory (every frame
\* of the model has the required columns)
validate_all_files(md) == HasMonth(md, "Dec")

\* the page stops on load errors and on validation errors
ShowErrors ==
    /\ cpc = "loaded"
    /\ errors # <<>> \/ ~validate_all_files(monthly_data)
    /\ cpc' = "rejected"
    /\ UNCHANGED <<archive, monthly_data, errors, master_df, final_df>>

\* consolidated_df = consolidate_data(monthly_data, product_type); master_df records
\* what its call of build_master_product_list returned
ConsolidateData ==
    /\ cpc = "loaded"
    /\ errors = <<>>
    /\ validate_all_files(monthly_data)
    /\ master_df' = build_master_product_list(monthly_data)
    /\ final_df' = consolidate_data(monthly_data, "BWS")
    /\ cpc' = "done"
    /\ UNCHANGED <<archive, monthly_data, errors>>

ConsNext ==
    \/ LoadMonthlyData /\ UNCHANGED <<keyVars, peakVars, truePeakVars, msvVars, rowVars, kwVars, insightVars>>
    \/ ShowErrors /\ UNCHANGED <<keyVars, peakVars, truePeakVars, msvVars, rowVars, kwVars, insightVars>>
    \/ ConsolidateData /\ UNCHANGED <<keyVars, peakVars, truePeakVars, msvVars, rowVars, kwVars, insightVars>>

InitCons == ConsInit /\ KeyIdle /\ PeakIdle /\ TruePeakIdle /\ MsvIdle /\ RowIdle /\ KwIdle /\ InsightIdle

SpecCons == InitCons /\ [][ConsNext]_vars

\* the non-empty keys of all titles of all snapshots
SeenKeys(md) ==
    UNION {{create_product_key(md[i].df[j].title) : j \in 1..Len(md[i].df)} : i \in 1..Len(md)}
    \ {<<>>}

\* C1: the master list and the consolidated table have exactly one row per distinct
\* non-empty key seen in any month: every seen key has a row, no key has two, and no
\* row has an empty key.
C1_OneRowPerKey ==
    cpc = "done" =>
        /\ {master_df.rows[i][product_key] : i \in 1..Len(master_df.rows)}
               = {Str(k) : k \in SeenKeys(monthly_data)}
        /\ Len(master_df.rows) = Cardinality(SeenKeys(monthly_data))
        /\ {create_product_key(final_df.rows[i][ProductTitle]) : i \in 1..Len(final_df.rows)}
               = SeenKeys(monthly_data)
        /\ Len(final_df.rows) = Cardinality(SeenKeys(monthly_data))

\* one month holds two spellings of one product, joined to a single row
C1_Witness ==
    /\ cpc = "done"
    /\ Len(monthly_data) = 1
    /\ monthly_data[1].month = "Dec"
    /\ Len(monthly_data[1].df) = 2
    /\ monthly_data[1].df[1].title # monthly_data[1].df[2].title
    /\ SeenKeys(monthly_data) = {<<"a">>}
    /\ Len(final_df.rows) = 1
    /\ Len(master_df.rows) = 1

\* the months of md that hold a row with key k
MonthsWithKey(md, k) ==
    {md[i].month : i \in {n \in 1..Len(md) :
                             \E j \in 1..Len(md[n].df) : create_product_key(md[n].df[j].title) = k}}

\* the first row of month m whose key is k
FirstRowWithKey(md, m, k) ==
    LET df == FrameOf(md, m)
    IN  df[CHOOSE j \in 1..Len(df) :
                /\ create_product_key(df[j].title) = k
                /\ \A h \in 1..(j - 1) : create_product_key(df[h].title) # k]

EarliestMonth(ms) ==
    CHOOSE m \in ms : \A o \in ms : get_month_number(m) <= get_month_number(o)

\* C2: a master row's title and brand are those of the earliest calendar month that
\* holds its key, whatever the order in which the files were read.
C2_FirstSeenCalendarOrder ==
    cpc = "done" =>
        \A i \in 1..Len(master_df.rows) :
            LET k == master_df.rows[i][product_key].v
                first == FirstRowWithKey(monthly_data,
                                         EarliestMonth(MonthsWithKey(monthly_data, k)), k)
            IN  /\ master_df.rows[i][ProductTitle] = first.title
                /\ master_df.rows[i][ProductBrand] = first.brand

\* what consolidate_data returns for the snapshots loaded
Consolidated ==
    IF cpc = "done" THEN final_df ELSE consolidate_data(monthly_data, "BWS")

\* the key of the i-th consolidated row
KeyOfRow(i) == create_product_key(Consolidated.rows[i][ProductTitle])

\* the December snapshot has a row for the i-th consolidated row, and that row
InDecember(i) == "Dec" \in MonthsWithKey(monthly_data, KeyOfRow(i))
DecemberRow(i) == FirstRowWithKey(monthly_data, "Dec", KeyOfRow(i))

\* C12: after consolidate_data every Product Max Price is "N/A" when the product has
\* no December row or a null December price (also without a December snapshot), and
\* otherwise the December price as a string; every Availability is "Potential Gap"
\* when the December availability is absent, null or blank after trimming, and
\* otherwise the December availability.
C12_AttributeDefaults ==
    cpc # "start" =>
        \A i \in 1..Len(Consolidated.rows) :
            /\ Consolidated.rows[i][ProductMaxPrice] =
                   IF InDecember(i) /\ DecemberRow(i).price # Null
                   THEN Str(str(DecemberRow(i).price))
                   ELSE Str(NA)
            /\ Consolidated.rows[i][Availability] =
                   IF /\ InDecember(i)
                      /\ DecemberRow(i).avail # Null
                      /\ Strip(str(DecemberRow(i).avail)) # <<>>
                   THEN DecemberRow(i).avail
                   ELSE Str(PotentialGap)

\* a product seen in January only beside a product with a December price and
\* availability
C12_Witness ==
    /\ cpc = "done"
    /\ \E i, j \in 1..Len(final_df.rows) :
          /\ ~InDecember(i)
          /\ final_df.rows[i][ProductMaxPrice] = Str(NA)
          /\ final_df.rows[i][Availability] = Str(PotentialGap)
          /\ InDecember(j)
          /\ final_df.rows[j][ProductMaxPrice] = Str(<<"3">>)
          /\ final_df.rows[j][Availability] = Str(<<"I", "n">>)

\* C13: the default pass is idempotent: the price rule and the availability rule
\* applied to the prices and availabilities of a consolidated table change none.
C13_DefaultsIdempotent ==
    cpc = "done" =>
        \A i \in 1..Len(final_df.rows) :
            /\ PriceRule(final_df.rows[i][ProductMaxPrice]) = final_df.rows[i][ProductMaxPrice]
            /\ AvailabilityRule(final_df.rows[i][Availability]) = final_df.rows[i][Availability]

\* a table holding a defaulted row (December price null, availability blank) and a
\* row with a December price
C13_Witness ==
    /\ cpc = "done"
    /\ \E i, j \in 1..Len(final_df.rows) :
          /\ InDecember(i)
          /\ DecemberRow(i).price = Null
          /\ final_df.rows[i][ProductMaxPrice] = Str(NA)
          /\ final_df.rows[i][Availability] = Str(PotentialGap)
          /\ InDecember(j)
          /\ DecemberRow(j).price # Null
          /\ final_df.rows[j][ProductMaxPrice] = Str(str(DecemberRow(j).price))

\* C14: for every consolidated row with key k and every calendar month M, Product
\* Popularity M is the rank of the first row of month M's snapshot whose normalized
\* title is k, however that row's raw title is spelled, and null when month M has no
\* snapshot or no row with key k.
C14_CrossMonthPopularity ==
    cpc # "start" =>
        \A i \in 1..Len(Consolidated.rows) : \A n \in 1..Len(VALID_MONTHS) :
            Consolidated.rows[i][PopularityCol(VALID_MONTHS[n])] =
                IF VALID_MONTHS[n] \in MonthsWithKey(monthly_data, KeyOfRow(i))
                THEN FirstRowWithKey(monthly_data, VALID_MONTHS[n], KeyOfRow(i)).rank
                ELSE Null

\* the product is titled 'A' in the table and 'a ' in January's snapshot, whose rank
\* it carries; it has no February rank
C14_Witness ==
    /\ cpc = "done"
    /\ \E i \in 1..Len(final_df.rows) :
          /\ final_df.rows[i][ProductTitle] = Str(<<"A">>)
          /\ "Jan" \in MonthsWithKey(monthly_data, <<"a">>)
          /\ FirstRowWithKey(monthly_data, "Jan", <<"a">>).title = Str(<<"a", " ">>)
          /\ final_df.rows[i][PopularityCol("Jan")] = Num(2)
          /\ final_df.rows[i][PopularityCol("Feb")] = Null

\* C17: with no snapshot, or with snapshots whose titles all have the empty key,
\* build_master_product_list returns no rows under the columns product_key, Product
\* Title, Product Brand, and consolidate_data returns the empty table: no column of a
\* join or of a peak derivation is in it.
C17_NoProductsShortCircuit ==
    cpc # "start" /\ SeenKeys(monthly_data) = {} =>
        /\ build_master_product_list(monthly_data)
               = Table(<<product_key, ProductTitle, ProductBrand>>, <<>>)
        /\ Consolidated = EmptyFrame
        /\ cpc = "done" => master_df = Table(<<product_key, ProductTitle, ProductBrand>>, <<>>)

\* a December snapshot whose only titles have no letter or digit was consolidated
C17_Witness ==
    /\ cpc = "done"
    /\ Len(monthly_data) = 1
    /\ Len(monthly_data[1].df) = 2
    /\ \A j \in 1..2 : monthly_data[1].df[j].title = Str(<<"-">>)
    /\ master_df.rows = <<>>
    /\ final_df = EmptyFrame

----------------------------------------------------------------------------
(* calculate_peak_popularity on one row *)

\* Highest popularity rank in a row.
MaxRank == 2
\* The row has popularity columns for this many months, from Jan on.
PeakMonthCount == 5

\* what a popularity cell can hold: nothing, text that is no number, a number
RankCells == {Null, Str(<<"x">>)} \cup {Num(n) : n \in 1..MaxRank}

PeakMonths == SubSeq(VALID_MONTHS, 1, PeakMonthCount)

PeakInit ==
    /\ popularity_row \in [{PopularityCol(PeakMonths[i]) : i \in 1..PeakMonthCount} -> RankCells]
    /\ peak_popularity = NotRun
    /\ ppc = "start"

\* master_df['Peak Popularity'] = calculate_peak_popularity(row, months), for one row
CalculatePeakPopularity ==
    /\ ppc = "start"
    /\ peak_popularity' = calculate_peak_popularity(popularity_row, get_month_order)
    /\ ppc' = "done"
    /\ UNCHANGED popularity_row

PeakNext == CalculatePeakPopularity /\ UNCHANGED <<keyVars, consVars, truePeakVars, msvVars, rowVars, kwVars, insightVars>>

InitPeak == PeakInit /\ KeyIdle /\ ConsIdle /\ TruePeakIdle /\ MsvIdle /\ RowIdle /\ KwIdle /\ InsightIdle

SpecPeak == InitPeak /\ [][PeakNext]_vars

\* the months of the row with a parseable rank
RankedMonths ==
    {m \in SeqToSet(VALID_MONTHS) :
        /\ PopularityCol(m) \in DOMAIN popularity_row
        /\ notna(popularity_row[PopularityCol(m)])
        /\ FloatParses(popularity_row[PopularityCol(m)])}

RankOf(m) == FloatOf(popularity_row[PopularityCol(m)])

\* m comes before o: a better (lower) rank, or the same rank earlier in the year
BetterMonth(m, o) ==
    \/ RankOf(m) < RankOf(o)
    \/ RankOf(m) = RankOf(o) /\ get_month_number(m) < get_month_number(o)

\* the best 4 of the ranked months
TopFour == {m \in RankedMonths : Cardinality({o \in RankedMonths : BetterMonth(o, m)}) < 4}

RECURSIVE SumRanks(_)
SumRanks(ms) ==
    IF ms = {} THEN 0 ELSE LET m == CHOOSE x \in ms : TRUE IN RankOf(m) + SumRanks(ms \ {m})

RECURSIVE SumSquares(_, _, _)
\* sum of (n * rank - total)^2 over the months ms
SumSquares(ms, n, total) ==
    IF ms = {} THEN 0
    ELSE LET m == CHOOSE x \in ms : TRUE
         IN  (n * RankOf(m) - total) * (n * RankOf(m) - total) + SumSquares(ms \ {m}, n, total)

\* the months of TopFour with abs(rank - mean) <= population standard deviation,
\* stated on the squares scaled by n^2: n * (n*rank - sum)^2 <= sum((n*r - sum)^2)
InBand ==
    LET n == Cardinality(TopFour)
        total == SumRanks(TopFour)
    IN  {m \in TopFour :
            n * (n * RankOf(m) - total) * (n * RankOf(m) - total) <= SumSquares(TopFour, n, total)}

\* the months a result names, and whether it is months separated by ", "
NamedMonths(result) == [i \in 1..((Len(result) + 1) \div 2) |-> result[2 * i - 1]]
WellJoined(result) ==
    /\ result = <<>> \/ Len(result) % 2 = 1
    /\ \A i \in 1..Len(result) : (i % 2 = 0) => result[i] = ", "

\* result lists exactly the months ms, best first
ListsBestFirst(result, ms) ==
    LET named == NamedMonths(result)
    IN  /\ WellJoined(result)
        /\ Len(named) = Cardinality(ms)
        /\ SeqToSet(named) = ms
        /\ \A i \in 1..Len(named) : \A j \in 1..Len(named) :
               i < j => BetterMonth(named[i], named[j])

\* C6: with one or two ranked months the result is the single best month; with none
\* it is the empty string.
C6_FewMonthsSingleBest ==
    ppc = "done" =>
        /\ Cardinality(RankedMonths) \in {1, 2} =>
               peak_popularity = <<CHOOSE m \in RankedMonths :
                                      \A o \in RankedMonths \ {m} : BetterMonth(m, o)>>
        /\ RankedMonths = {} => peak_popularity = <<>>

\* C7: with at least 3 ranked months the result lists exactly the months of the best
\* four whose rank is within one population standard deviation of their mean, best
\* rank first and equal ranks in calendar order.
C7_PeakBand ==
    (ppc = "done" /\ Cardinality(RankedMonths) >= 3) =>
        ListsBestFirst(peak_popularity, InBand)

\* five ranked months whose best four are equal: all four are returned, the fifth is not
C7_Witness ==
    /\ ppc = "done"
    /\ Cardinality(RankedMonths) = 5
    /\ \A m \in {"Jan", "Feb", "Mar", "Apr"} : RankOf(m) = 1
    /\ RankOf("May") = 2
    /\ peak_popularity = <<"Jan", ", ", "Feb", ", ", "Mar", ", ", "Apr">>

\* C28: with at least 3 ranked months the band keeps at least one of the best four
\* months: the result names the months of the band, a non-empty subset of the best
\* four, and never falls back to the single best month for want of a stable month.
C28_BandNeverEmpty ==
    (ppc = "done" /\ Cardinality(RankedMonths) >= 3) =>
        LET named == SeqToSet(NamedMonths(peak_popularity))
        IN  /\ InBand # {}
            /\ named # {}
            /\ named \subseteq TopFour
            /\ named = InBand

\* three months of equal rank, the deviation zero: all three are in the band
C28_Witness ==
    /\ ppc = "done"
    /\ RankedMonths = {"Feb", "Mar", "May"}
    /\ \A m \in RankedMonths : RankOf(m) = 2
    /\ peak_popularity = <<"Feb", ", ", "Mar", ", ", "May">>

----------------------------------------------------------------------------
(* calculate_true_peak on one row *)

\* Highest monthly search volume in a row.
MaxMsv == 2

\* what an MSV cell can hold: nothing, text that is no number, a volume
MsvCells == {Null, Str(<<"x">>)} \cup {Num(n) : n \in 0..MaxMsv}
VolumeCells == {Num(n) : n \in 0..MaxMsv}

\* a row repeats one three-year profile over its first 1, 4 or 11 months
SpreadCounts == {1, 4, 11}

\* the row whose first n months hold the cells a (one per year), whose next month
\* holds the cells b, and which has no other month column
TruePeakRow(a, b, n) ==
    [col \in {MsvCol(VALID_MONTHS[i], YEARS[y]) : i \in 1..(n + 1), y \in 1..3} |->
        LET i == CHOOSE k \in 1..(n + 1) : VALID_MONTHS[k] = col[1]
            y == CHOOSE k \in 1..3 : YEARS[k] = col[2]
        IN  IF i <= n THEN a[y] ELSE b[y]]

TruePeakInit ==
    /\ msv_row \in {TruePeakRow(a, b, n) :
                       a \in [1..3 -> MsvCells], b \in [1..3 -> VolumeCells], n \in SpreadCounts}
    /\ true_peak = NotRun
    /\ tpc = "start"

\* merged_df['True Peak'] = calculate_true_peak(row), for one row
CalculateTruePeak ==
    /\ tpc = "start"
    /\ true_peak' = calculate_true_peak(msv_row)
    /\ tpc' = "done"
    /\ UNCHANGED msv_row

TruePeakNext == CalculateTruePeak /\ UNCHANGED <<keyVars, consVars, peakVars, msvVars, rowVars, kwVars, insightVars>>

InitTruePeak == TruePeakInit /\ KeyIdle /\ ConsIdle /\ PeakIdle /\ MsvIdle /\ RowIdle /\ KwIdle /\ InsightIdle

SpecTruePeak == InitTruePeak /\ [][TruePeakNext]_vars

MonthSet == SeqToSet(VALID_MONTHS)
YearSet == SeqToSet(YEARS)

\* the cell of a month and year is missing, unparseable or zero
BlankOrZero(m, y) ==
    \/ MsvCol(m, y) \notin DOMAIN msv_row
    \/ msv_row[MsvCol(m, y)] = Null
    \/ ~FloatParses(msv_row[MsvCol(m, y)])
    \/ FloatOf(msv_row[MsvCol(m, y)]) = 0

\* the month's average over the three years, missing and unparseable cells counting 0,
\* is not zero
NonZeroAverage(m) ==
    LET number(y) == IF BlankOrZero(m, y) THEN 0 ELSE FloatOf(msv_row[MsvCol(m, y)])
    IN  number("2023") + number("2024") + number("2025") # 0

\* C8: a row whose 36 cells are all missing, unparseable or zero gets the empty
\* string; a row with a non-zero monthly average gets a non-empty string.
C8_TruePeakAllZero ==
    tpc = "done" =>
        /\ (\A m \in MonthSet : \A y \in YearSet : BlankOrZero(m, y)) => true_peak = <<>>
        /\ (\E m \in MonthSet : NonZeroAverage(m)) => true_peak # <<>>

\* a row of nulls, text and zeros only
C8_Witness ==
    /\ tpc = "done"
    /\ msv_row[MsvCol("Jan", "2023")] = Null
    /\ msv_row[MsvCol("Jan", "2024")] = Str(<<"x">>)
    /\ msv_row[MsvCol("Jan", "2025")] = Num(0)
    /\ \A m \in MonthSet : \A y \in YearSet : BlankOrZero(m, y)
    /\ true_peak = <<>>

\* the scores of the row, and the months (1..12) scoring above 0.5
RowScores == TruePeakScores(msv_row)
AboveHalf == {i \in 1..12 : ScoreAboveHalf(RowScores, i)}
MonthIndex(m) == CHOOSE i \in 1..12 : VALID_MONTHS[i] = m

\* C9: the result names the months scoring above 0.5, at most the 3 highest of them
\* in descending score order, or else the single highest-scoring month: 1 to 3
\* distinct months whenever the monthly averages are not all zero.
C9_TruePeakSelection ==
    (tpc = "done" /\ \E m \in MonthSet : NonZeroAverage(m)) =>
        LET sc == RowScores
            above == AboveHalf
            names == NamedMonths(true_peak)
            n == Len(names)
            named == [i \in 1..n |-> MonthIndex(names[i])]
        IN  /\ WellJoined(true_peak)
            /\ n \in 1..3
            /\ SeqToSet(names) \subseteq MonthSet
            /\ Cardinality(SeqToSet(names)) = n
            /\ IF above # {}
               THEN /\ SeqToSet(named) \subseteq above
                    /\ n = (IF Cardinality(above) < 3 THEN Cardinality(above) ELSE 3)
                    /\ \A i \in 1..n : \A j \in 1..n :
                           i < j => ~ScoreGreater(sc, named[j], named[i])
                    /\ \A m \in above \ SeqToSet(named) : \A i \in 1..n :
                           ~ScoreGreater(sc, m, named[i])
               ELSE /\ n = 1
                    /\ \A m \in 1..12 : ~ScoreGreater(sc, m, named[1])

\* four months score above 0.5 and only three are named
C9_Witness ==
    /\ tpc = "done"
    /\ Cardinality(AboveHalf) = 4
    /\ Len(NamedMonths(true_peak)) = 3
    /\ true_peak = <<"Jan", ", ", "Feb", ", ", "Mar">>

\* avg_yoy of the i-th month is 50 * YoyNums[i] / YoyDens[i], with YoyDens[i] > 0
YoyNums == ByMonth([i \in 1..12 |-> GrowthNum(msv_row, VALID_MONTHS[i])])
YoyDens == ByMonth([i \in 1..12 |-> GrowthDen(msv_row, VALID_MONTHS[i])])

\* normalized_yoy of the i-th month, taken from the scores sc, is YoyShare(sc, i) /
\* (2 * sc.scale): the score's rational part less the consistency's share
YoyShare(sc, i) == sc.rat[i] - Consistency(msv_row, VALID_MONTHS[i]) * sc.scale

\* C22: when the maximum avg_yoy over the 12 months is zero or negative every
\* month's normalized YoY is 0; otherwise a month's normalized YoY is its avg_yoy
\* divided by that maximum.
C22_YoyNormalization ==
    tpc = "done" =>
        LET sc == RowScores
            nums == YoyNums
            dens == YoyDens
            max == CHOOSE j \in 1..12 : \A i \in 1..12 : nums[i] * dens[j] <= nums[j] * dens[i]
        IN  IF nums[max] <= 0
            THEN \A i \in 1..12 : YoyShare(sc, i) = 0
            ELSE \A i \in 1..12 :
                     YoyShare(sc, i) * nums[max] * dens[i] = 2 * sc.scale * nums[i] * dens[max]

----------------------------------------------------------------------------
(* The three peak derivations on one row of mixed cells *)

\* Highest number in a cell of the row.
MaxVolume == 2

\* what a cell can hold: nothing, a blank, text that is no number, a number
MixedCells == {Null, Str(<<>>), Str(<<"x">>)} \cup {Num(n) : n \in 0..MaxVolume}

\* a row with popularity columns for Jan to May and the month columns Jan 2023,
\* Jan 2024, Feb 2023, Mar 2025 and Apr 2024; the i-th popularity column holds what
\* the i-th month column holds
RowOf(cells) ==
    (PopularityCol("Jan") :> cells[1]) @@ (PopularityCol("Feb") :> cells[2])
    @@ (PopularityCol("Mar") :> cells[3]) @@ (PopularityCol("Apr") :> cells[4])
    @@ (PopularityCol("May") :> cells[5])
    @@ (MsvCol("Jan", "2023") :> cells[1]) @@ (MsvCol("Jan", "2024") :> cells[2])
    @@ (MsvCol("Feb", "2023") :> cells[3]) @@ (MsvCol("Mar", "2025") :> cells[4])
    @@ (MsvCol("Apr", "2024") :> cells[5])

RowInit ==
    /\ data_row \in {RowOf(cells) : cells \in [1..5 -> MixedCells]}
    /\ derived = <<>>
    /\ rpc = "start"

\* master_df['Peak Popularity'] = master_df.apply(calculate_peak_popularity), for the data_row
DerivePeakPopularity ==
    /\ rpc = "start"
    /\ derived' = [popularity |-> calculate_peak_popularity(data_row, get_month_order)]
    /\ rpc' = "popularity"
    /\ UNCHANGED data_row

\* merged_df['Peak Seasonality'] = merged_df.apply(calculate_peak_seasonality), for the data_row
DerivePeakSeasonality ==
    /\ rpc = "popularity"
    /\ derived' = [popularity |-> derived.popularity,
                   seasonality |-> calculate_peak_seasonality(data_row)]
    /\ rpc' = "seasonality"
    /\ UNCHANGED data_row

\* merged_df['True Peak'] = merged_df.apply(calculate_true_peak), for the data_row
DeriveTruePeak ==
    /\ rpc = "seasonality"
    /\ derived' = [popularity |-> derived.popularity,
                   seasonality |-> derived.seasonality,
                   true_peak |-> calculate_true_peak(data_row)]
    /\ rpc' = "done"
    /\ UNCHANGED data_row

RowNext ==
    \/ DerivePeakPopularity /\ UNCHANGED <<keyVars, consVars, peakVars, truePeakVars, msvVars, kwVars, insightVars>>
    \/ DerivePeakSeasonality /\ UNCHANGED <<keyVars, consVars, peakVars, truePeakVars, msvVars, kwVars, insightVars>>
    \/ DeriveTruePeak /\ UNCHANGED <<keyVars, consVars, peakVars, truePeakVars, msvVars, kwVars, insightVars>>

InitRow == RowInit /\ KeyIdle /\ ConsIdle /\ PeakIdle /\ TruePeakIdle /\ MsvIdle /\ KwIdle /\ InsightIdle

SpecRow == InitRow /\ [][RowNext]_vars

\* the month columns of the data_row that hold a present and parseable volume
VolumeColumns ==
    {c \in DOMAIN data_row : /\ Len(c) = 2
                        /\ c[1] \in MonthSet
                        /\ c[2] \in YearSet
                        /\ data_row[c] # Null
                        /\ FloatParses(data_row[c])}

\* the month columns holding the highest volume
HighestColumns ==
    {c \in VolumeColumns : \A o \in VolumeColumns : FloatOf(data_row[o]) <= FloatOf(data_row[c])}

\* C18: with fewer than 3 present and parseable volumes Peak Seasonality is the
\* single highest-volume month if a volume remains (one month also for exactly two
\* volumes), and the empty string if none remains.
C18_FewVolumesSingleBest ==
    rpc \in {"seasonality", "done"} =>
        /\ Cardinality(VolumeColumns) \in {1, 2} =>
               \E c \in HighestColumns : derived.seasonality = <<c[1]>>
        /\ VolumeColumns = {} => derived.seasonality = <<>>

\* C19: Peak Seasonality names between 0 and 4 months and never the same calendar
\* month twice, the volumes being aggregated per calendar month.
C19_OneNumberPerMonth ==
    rpc \in {"seasonality", "done"} =>
        /\ WellJoined(derived.seasonality)
        /\ Len(NamedMonths(derived.seasonality)) <= 4
        /\ SeqToSet(NamedMonths(derived.seasonality)) \subseteq MonthSet
        /\ Cardinality(SeqToSet(NamedMonths(derived.seasonality)))
               = Len(NamedMonths(derived.seasonality))

\* result is a string the derivations return: months separated by ", ", or empty
IsMonthList(result) ==
    /\ WellJoined(result)
    /\ SeqToSet(NamedMonths(result)) \subseteq MonthSet

VolumeOf(c) == FloatOf(data_row[c])
ColumnOrder(c) ==
    12 * (CHOOSE y \in 1..3 : YEARS[y] = c[2]) + (CHOOSE m \in 1..12 : VALID_MONTHS[m] = c[1])

\* column o ranks before column c: a higher volume, or the same volume earlier
HigherVolume(o, c) ==
    \/ VolumeOf(o) > VolumeOf(c)
    \/ VolumeOf(o) = VolumeOf(c) /\ ColumnOrder(o) < ColumnOrder(c)

\* the 4 highest-volume entries
TopFourVolumes ==
    {c \in VolumeColumns : Cardinality({o \in VolumeColumns : HigherVolume(o, c)}) < 4}

RECURSIVE SumVolumes(_)
SumVolumes(cs) ==
    IF cs = {} THEN 0 ELSE LET c == CHOOSE x \in cs : TRUE IN VolumeOf(c) + SumVolumes(cs \ {c})

RECURSIVE SumVolumeSquares(_, _, _)
\* sum of (n * volume - total)^2 over the columns cs
SumVolumeSquares(cs, n, total) ==
    IF cs = {} THEN 0
    ELSE LET c == CHOOSE x \in cs : TRUE
         IN  (n * VolumeOf(c) - total) * (n * VolumeOf(c) - total)
             + SumVolumeSquares(cs \ {c}, n, total)

\* the entries of TopFourVolumes with volume >= mean - population standard
\* deviation: at or above the mean, or below it by no more than the deviation
VolumeBand ==
    LET n == Cardinality(TopFourVolumes)
        total == SumVolumes(TopFourVolumes)
    IN  {c \in TopFourVolumes :
            \/ n * VolumeOf(c) >= total
            \/ n * (total - n * VolumeOf(c)) * (total - n * VolumeOf(c))
                   <= SumVolumeSquares(TopFourVolumes, n, total)}

----------------------------------------------------------------------------
(* The MSV page: merging an uploaded MSV table into the session's table *)

\* Most presses of the merge button.
MaxMerges == 2
\* Most rows of an uploaded MSV table.
MaxMsvRows == 2

Chars(a, b) == <<a, b>>

\* the session's table has three products, the third without a keyword yet
ProductPool ==
    <<[key |-> Str(Chars("k", "1")), title |-> Str(<<"A">>), keyword |-> Str(Chars("A", "a"))],
      [key |-> Str(Chars("k", "2")), title |-> Str(Chars("A", "1")), keyword |-> Str(Chars("a", "1"))],
      [key |-> Str(Chars("k", "4")), title |-> Str(<<"1">>), keyword |-> Str(<<>>)]>>

\* rows an MSV table is made of: the first two carry the same key, the same title
\* and, up to case and surrounding blanks, the same keyword; the last has a keyword
\* of one blank
MsvPool ==
    {[key |-> Str(Chars("k", "1")), title |-> Str(<<"A">>), keyword |-> Str(Chars("a", "a")),
      jan |-> Num(2), feb |-> Num(1), seasonality |-> Str(<<"Jun">>)],
     [key |-> Str(Chars("k", "1")), title |-> Str(<<"A">>), keyword |-> Str(<<"a", "a", " ">>),
      jan |-> Num(1), feb |-> Num(2), seasonality |-> Str(<<>>)],
     [key |-> Str(Chars("k", "3")), title |-> Str(Chars("a", "1")), keyword |-> Str(Chars("A", "1")),
      jan |-> Null, feb |-> Num(1), seasonality |-> Str(<<"Jun">>)],
     [key |-> Str(Chars("k", "5")), title |-> Str(<<"1">>), keyword |-> Str(<<" ">>),
      jan |-> Num(1), feb |-> Num(1), seasonality |-> Null]}

\* every choice of join columns, in the candidates' order
CandidateColumns ==
    {SelectSeq2(JoinCandidates, chosen) : chosen \in SUBSET SeqToSet(JoinCandidates)}

CandidateCells(p, cols) ==
    [c \in SeqToSet(cols) |->
        IF c = ProductKey THEN p.key ELSE IF c = ProductTitle THEN p.title ELSE p.keyword]

\* what the session's table holds besides the join columns: "bare" no other column,
\* "fresh" what consolidate_data leaves (Peak Seasonality and the month column
\* blank), "partly" Peak Seasonality filled in the first row only, "filled" in
\* every row
MasterShapes == {"bare", "fresh", "partly", "filled"}

MasterTable(cols, shape) ==
    Table(cols \o (IF shape = "bare" THEN <<>>
                   ELSE <<MsvCol("Jan", "2023"), PeakSeasonality>>),
          [i \in 1..Len(ProductPool) |->
              CandidateCells(ProductPool[i], cols)
              @@ (IF shape = "bare" THEN <<>>
                  ELSE (MsvCol("Jan", "2023") :> Str(<<>>))
                       @@ (PeakSeasonality :>
                              (IF shape = "filled" \/ (shape = "partly" /\ i = 1)
                               THEN Str(<<"Mar">>) ELSE Str(<<>>))))])

\* the month columns of an MSV table: none, Feb 2024, or Jan 2023 and Feb 2024
MsvMonthColumns == <<<<>>, <<MsvCol("Feb", "2024")>>,
                     <<MsvCol("Jan", "2023"), MsvCol("Feb", "2024")>>>>

\* validate_msv_file accepts a table with at least one of the join columns; it may
\* bring a Peak Seasonality column of its own
MsvTable(cols, months, with_seasonality, rows) ==
    Table(cols \o months \o (IF with_seasonality THEN <<PeakSeasonality>> ELSE <<>>),
          [i \in 1..Len(rows) |->
              CandidateCells(rows[i], cols)
              @@ [c \in SeqToSet(months) |-> IF c[1] = "Jan" THEN rows[i].jan ELSE rows[i].feb]
              @@ (IF with_seasonality THEN PeakSeasonality :> rows[i].seasonality ELSE <<>>)])

MsvInit ==
    /\ consolidated_df \in {MasterTable(cols, shape) :
                               cols \in CandidateColumns, shape \in MasterShapes}
    /\ msv_df \in {MsvTable(cols, MsvMonthColumns[m], with_seasonality, rows) :
                      cols \in CandidateColumns \ {<<>>},
                      m \in 1..3,
                      with_seasonality \in BOOLEAN,
                      rows \in UNION {[1..n -> MsvPool] : n \in 1..MaxMsvRows}}
    /\ before_df = NotBuilt
    /\ join_key = None
    /\ merge_error = FALSE
    /\ merges = 0

\* the merge button: merged_df = merge_msv_data(consolidated_df, msv_df);
\* st.session_state.consolidated_df = merged_df; save_pipeline_state()
MergeMsvData ==
    LET result == merge_msv_data(consolidated_df, msv_df)
    IN  /\ merges < MaxMerges
        /\ ~result.raised
        /\ consolidated_df' = result.df
        /\ before_df' = consolidated_df
        /\ join_key' = result.join_key
        /\ merge_error' = FALSE
        /\ merges' = merges + 1
        /\ UNCHANGED msv_df

\* the merge button storing and saving the table although merge_msv_data raised
MergeRejectedButSaved ==
    /\ merges < MaxMerges
    /\ merge_msv_data(consolidated_df, msv_df).raised
    /\ consolidated_df' = merge_msv_data(consolidated_df, msv_df).df
    /\ before_df' = consolidated_df
    /\ merge_error' = TRUE
    /\ merges' = merges + 1
    /\ UNCHANGED <<msv_df, join_key>>

\* the merge button when merge_msv_data raises: the error is shown, nothing is stored
MergeRejected ==
    /\ merges < MaxMerges
    /\ merge_msv_data(consolidated_df, msv_df).raised
    /\ merge_error' = TRUE
    /\ UNCHANGED <<consolidated_df, msv_df, before_df, join_key, merges>>

MsvNext ==
    \/ MergeMsvData /\ UNCHANGED <<keyVars, consVars, peakVars, truePeakVars, rowVars, kwVars, insightVars>>
    \/ MergeRejected /\ UNCHANGED <<keyVars, consVars, peakVars, truePeakVars, rowVars, kwVars, insightVars>>

InitMsv == MsvInit /\ KeyIdle /\ ConsIdle /\ PeakIdle /\ TruePeakIdle /\ RowIdle /\ KwIdle /\ InsightIdle

SpecMsv == InitMsv /\ [][MsvNext]_vars

ColumnSet(df) == SeqToSet(df.cols)

\* C3: merging the same MSV table again leaves the column set and the number of rows
\* as they were after the merge before, and no column ending in '_msv' exists after
\* a merge.
C3_MergeIdempotent ==
    /\ merges >= 1 => \A c \in ColumnSet(consolidated_df) : ~EndsWithMsv(c)
    /\ merges >= 2 =>
           /\ ColumnSet(consolidated_df) = ColumnSet(before_df)
           /\ Len(consolidated_df.rows) = Len(before_df.rows)

\* the columns that identify a product and that a merge does not bring from the MSV table
ProductColumns ==
    (SeqToSet(JoinCandidates) \cap ColumnSet(before_df)) \ Stale(before_df, msv_df, join_key)

\* C4: the merged table has exactly the rows of the table merged into, in the same
\* order, one per product: as many rows, the i-th being the i-th product.
C4_MergeKeepsProducts ==
    merges >= 1 =>
        /\ Len(consolidated_df.rows) = Len(before_df.rows)
        /\ \A i \in 1..Len(before_df.rows) : \A c \in ProductColumns :
               consolidated_df.rows[i][c] = before_df.rows[i][c]

\* the candidates, by priority, that are columns of both tables of the last press
CommonCandidates ==
    LET master == IF merges >= 1 THEN before_df ELSE consolidated_df
    IN  {i \in 1..Len(JoinCandidates) :
            JoinCandidates[i] \in ColumnSet(master) \cap ColumnSet(msv_df)}

\* C10: the join key of a merge is the first of Product Key, Product Title, Product
\* Keyword that is a column of both tables; with no such column nothing is merged.
C10_JoinKeySelection ==
    /\ merges >= 1 =>
           \E i \in CommonCandidates :
               /\ join_key = JoinCandidates[i]
               /\ \A j \in CommonCandidates : i <= j
    /\ merge_error => CommonCandidates = {}

\* the consolidated table has all three candidates, the MSV table only title and
\* keyword: the merge is on the title
C10_Witness ==
    /\ merges = 1
    /\ SeqToSet(JoinCandidates) \subseteq ColumnSet(before_df)
    /\ ProductKey \notin ColumnSet(msv_df)
    /\ {ProductTitle, ProductKeyword} \subseteq ColumnSet(msv_df)
    /\ join_key = ProductTitle

\* none of the candidates is a column of both the session's table and the MSV table
NoCommonCandidate ==
    \A i \in 1..Len(JoinCandidates) :
        JoinCandidates[i] \notin ColumnSet(consolidated_df) \cap ColumnSet(msv_df)

\* C11: when none of Product Key, Product Title, Product Keyword is a column of both
\* tables, pressing the merge button ends in the error and changes nothing else: the
\* session's table is not replaced and no merge is stored or saved.
C11_NoJoinKeyHalts ==
    [][NoCommonCandidate =>
          /\ merge_error'
          /\ UNCHANGED <<consolidated_df, msv_df, before_df, join_key, merges>>]_vars

\* a press was rejected: the tables share no candidate and the session's table still
\* is the one consolidate_data left
C11_Witness ==
    /\ merge_error
    /\ merges = 0
    /\ NoCommonCandidate
    /\ consolidated_df = MasterTable(<<ProductKey>>, "fresh")
    /\ ProductTitle \in ColumnSet(msv_df)

\* the 36 month columns
MonthColumns == {MsvCol(m, y) : m \in MonthSet, y \in YearSet}

\* C24: after a merge whose joined table has Peak Seasonality absent or blank in
\* every row, Peak Seasonality is calculate_peak_seasonality of every row if at
\* least one of the 36 month columns is in the merged table, whichever it is; with
\* none of them it stays blank or absent and the merge returns.
C24_SeasonalityWhenMissing ==
    (merges >= 1 /\ should_calculate(JoinedTable(before_df, msv_df, join_key))) =>
        IF MonthColumns \cap ColumnSet(consolidated_df) # {}
        THEN /\ PeakSeasonality \in ColumnSet(consolidated_df)
             /\ \A n \in 1..Len(consolidated_df.rows) :
                    consolidated_df.rows[n][PeakSeasonality]
                        = Str(calculate_peak_seasonality(consolidated_df.rows[n]))
        ELSE should_calculate(consolidated_df)

\* the two derived columns
DerivedColumns == {PeakSeasonality, TruePeak}

\* Peak Seasonality is a column of the table and non-blank in at least one row
SeasonalityFilled(df) ==
    /\ PeakSeasonality \in ColumnSet(df)
    /\ \E i \in 1..Len(df.rows) :
          notna(df.rows[i][PeakSeasonality]) /\ Strip(str(df.rows[i][PeakSeasonality])) # <<>>

\* C26: when the table merged into has a non-blank Peak Seasonality in at least one
\* row and the MSV table has neither a Peak Seasonality nor a True Peak column, the
\* merge leaves Peak Seasonality and True Peak of every row as they were: the merged
\* table has them as the join of the table before has them, row for row.
C26_RemergeKeepsDerivations ==
    (merges >= 1 /\ SeasonalityFilled(before_df) /\ DerivedColumns \cap ColumnSet(msv_df) = {}) =>
        LET joined == JoinedTable(before_df, msv_df, join_key)
        IN  /\ DerivedColumns \cap ColumnSet(consolidated_df) = DerivedColumns \cap ColumnSet(before_df)
            /\ Len(consolidated_df.rows) = Len(joined.rows)
            /\ \A c \in DerivedColumns \cap ColumnSet(before_df) :
                  /\ \A n \in 1..Len(joined.rows) :
                         consolidated_df.rows[n][c] = joined.rows[n][c]
                  /\ Len(joined.rows) = Len(before_df.rows) =>
                         \A n \in 1..Len(before_df.rows) :
                             consolidated_df.rows[n][c] = before_df.rows[n][c]

\* Peak Seasonality 'Mar' was kept in a row whose merged volumes, Feb 2024 the only
\* one, would give 'Feb'
C26_Witness ==
    /\ merges = 1
    /\ SeasonalityFilled(before_df)
    /\ DerivedColumns \cap ColumnSet(msv_df) = {}
    /\ Len(consolidated_df.rows) = Len(before_df.rows)
    /\ consolidated_df.rows[1][PeakSeasonality] = Str(<<"Mar">>)
    /\ MsvCol("Feb", "2024") \in ColumnSet(consolidated_df)
    /\ consolidated_df.rows[1][MsvCol("Feb", "2024")] = Num(2)
    /\ calculate_peak_seasonality(consolidated_df.rows[1]) = <<"Feb">>

\* a second merge kept the Peak Seasonality and True Peak the first had computed
C26_SecondMerge ==
    /\ merges = 2
    /\ SeasonalityFilled(before_df)
    /\ TruePeak \in ColumnSet(before_df)
    /\ DerivedColumns \cap ColumnSet(msv_df) = {}

\* C27: when the MSV table brings a Peak Seasonality column of its own that is
\* non-blank in at least one row after the join, the merge computes neither Peak
\* Seasonality nor True Peak: Peak Seasonality is what the join gave, and a table
\* that had no True Peak column before has none afterwards, month columns or not.
C27_TruePeakOnlyWithSeasonality ==
    /\ (merges >= 1 /\ TruePeak \in ColumnSet(consolidated_df) \ ColumnSet(before_df)) =>
           \A n \in 1..Len(consolidated_df.rows) :
               consolidated_df.rows[n][PeakSeasonality]
                   = Str(calculate_peak_seasonality(consolidated_df.rows[n]))
    /\ (merges >= 1 /\ PeakSeasonality \in ColumnSet(msv_df)
          /\ SeasonalityFilled(JoinedTable(before_df, msv_df, join_key))) =>
           /\ consolidated_df = JoinedTable(before_df, msv_df, join_key)
           /\ TruePeak \notin ColumnSet(before_df) => TruePeak \notin ColumnSet(consolidated_df)

\* the MSV table's 'Jun' is the first row's Peak Seasonality although its volumes,
\* Jan 2023 the highest, would give another, and there is no True Peak column
C27_Witness ==
    /\ merges = 1
    /\ PeakSeasonality \in ColumnSet(msv_df)
    /\ MsvCol("Jan", "2023") \in ColumnSet(msv_df)
    /\ consolidated_df.rows[1][PeakSeasonality] = Str(<<"Jun">>)
    /\ consolidated_df.rows[1][MsvCol("Jan", "2023")] = Num(2)
    /\ TruePeak \notin ColumnSet(consolidated_df)

\* a keyword lower-cased and trimmed
KeywordNorm(x) == Strip(Lower(str(x)))

RECURSIVE KeywordMatches(_, _)
\* the MSV rows from the j-th on whose keyword is, lower-cased and trimmed, that of
\* the i-th row of the table merged into
KeywordMatches(i, j) ==
    IF j > Len(msv_df.rows) THEN <<>>
    ELSE (IF KeywordNorm(msv_df.rows[j][ProductKeyword])
                = KeywordNorm(before_df.rows[i][ProductKeyword])
          THEN <<<<i, j>>>> ELSE <<>>)
         \o KeywordMatches(i, j + 1)

RECURSIVE KeywordPairs(_)
\* row by row of the table merged into: the MSV rows attached, or 0 for none
KeywordPairs(i) ==
    IF i > Len(before_df.rows) THEN <<>>
    ELSE (IF KeywordMatches(i, 1) = <<>> THEN <<<<i, 0>>>> ELSE KeywordMatches(i, 1))
         \o KeywordPairs(i + 1)

\* C15: in a merge keyed on Product Keyword an MSV row is attached to a row of the
\* table exactly when their keywords are equal after lower-casing and trimming; every
\* merged row keeps the table's own Product Keyword, and no second keyword column
\* (nor the temporary key) is added.
C15_KeywordMerge ==
    merges >= 1 /\ join_key = ProductKeyword =>
        /\ Len(consolidated_df.rows) = Len(KeywordPairs(1))
        /\ \A n \in 1..Len(consolidated_df.rows) :
              /\ consolidated_df.rows[n][ProductKeyword]
                     = before_df.rows[KeywordPairs(1)[n][1]][ProductKeyword]
              /\ \A c \in ColumnSet(msv_df) \ ({ProductKeyword} \cup DerivedColumns) :
                     consolidated_df.rows[n][c] =
                         IF KeywordPairs(1)[n][2] = 0 THEN Null
                         ELSE msv_df.rows[KeywordPairs(1)[n][2]][c]
        /\ Cardinality({n \in 1..Len(consolidated_df.cols) :
                           consolidated_df.cols[n] = ProductKeyword}) = 1
        /\ \A c \in ColumnSet(consolidated_df) : ~EndsWithMsv(c) /\ c # JoinLower

\* the table's keyword 'Aa' took the volumes of the MSV row whose keyword is 'aa '
C15_Witness ==
    /\ merges = 1
    /\ join_key = ProductKeyword
    /\ Len(msv_df.rows) = 1
    /\ msv_df.rows[1][ProductKeyword] = Str(<<"a", "a", " ">>)
    /\ MsvCol("Feb", "2024") \in ColumnSet(msv_df)
    /\ consolidated_df.rows[1][ProductKeyword] = Str(Chars("A", "a"))
    /\ consolidated_df.rows[1][MsvCol("Feb", "2024")] = Num(2)
    /\ consolidated_df.rows[2][MsvCol("Feb", "2024")] = Null

\* a keyword that is missing or empty
NoKeyword(x) == ~notna(x) \/ Strip(str(x)) = <<>>

\* C29: in a merge keyed on Product Keyword a row of the table whose keyword is empty
\* or missing is matched to no MSV row, whatever rows the MSV table has: every column
\* the MSV table brings is null in it.
C29_EmptyKeywordUnmatched ==
    (merges >= 1 /\ join_key = ProductKeyword) =>
        \A n \in 1..Len(consolidated_df.rows) :
            NoKeyword(consolidated_df.rows[n][ProductKeyword]) =>
                \A c \in ColumnSet(msv_df) \ {ProductKeyword, PeakSeasonality} :
                    consolidated_df.rows[n][c] = Null

\* C16: in a merge keyed on Product Title an MSV record is attached to the row whose
\* title has the same create_product_key as the record's title: for every such pair
\* the merged table has a row with the table's title and the record's values.
C16_TitleMergeUsesKey ==
    merges >= 1 /\ join_key = ProductTitle =>
        \A i \in 1..Len(before_df.rows) : \A j \in 1..Len(msv_df.rows) :
            create_product_key(before_df.rows[i][ProductTitle])
                = create_product_key(msv_df.rows[j][ProductTitle])
            => \E n \in 1..Len(consolidated_df.rows) :
                  /\ consolidated_df.rows[n][ProductTitle] = before_df.rows[i][ProductTitle]
                  /\ \A c \in ColumnSet(msv_df) \ {ProductTitle} :
                         consolidated_df.rows[n][c] = msv_df.rows[j][c]

----------------------------------------------------------------------------
(* generate_keywords_batch: keyword batches sent to the service in parallel *)

\* Most rows of the table keywords are generated for.
MaxKwRows == 2
\* for attempt in range(3)
BatchAttempts == 3

\* a table with an index: the labels of the rows, the columns, the rows' cells
Frame(index, cols, rows) == [index |-> index, cols |-> cols, rows |-> rows]

KwTitles == <<Str(<<"A">>), Str(Chars("A", "1"))>>

\* a table of n products under the labels 0..n-1, with or without a keyword column
KeywordFrame(n, with_keyword) ==
    Frame([i \in 1..n |-> i - 1],
          <<ProductTitle>> \o (IF with_keyword THEN <<ProductKeyword>> ELSE <<>>),
          [i \in 1..n |->
              (ProductTitle :> KwTitles[i])
              @@ (IF with_keyword THEN ProductKeyword :> Str(<<>>) ELSE <<>>)])

\* the ids and the keywords an answer of the service can hold: the labels of the
\* table, a label the table has not, an id that is no number; two keywords, an
\* empty one, the word 'error', and a JSON number
ServiceIds == {"0", "1", "9", "x"}
ServiceKeywords ==
    {Str(<<"k">>), Str(<<"m">>), Str(<<>>), Str(<<"e", "r", "r", "o", "r">>), Num(5)}

\* what generate_batch_keywords_api gives for one call: QuotaExceededError raised,
\* or the parsed JSON: a list, or an object as its <<id, keyword>> items in order
\* ({} for a blocked or unreadable answer)
QuotaExceeded == [kind |-> "quota", items |-> <<>>]
JsonList == [kind |-> "list", items |-> <<>>]
JsonObject(items) == [kind |-> "dict", items |-> items]

ServiceAnswers ==
    {QuotaExceeded, JsonList, JsonObject(<<>>)}
    \cup {JsonObject(<<<<id, kw>>>>) : id \in ServiceIds, kw \in ServiceKeywords}
    \cup {JsonObject(<<<<"0", Num(5)>>, <<"1", Str(<<"k">>)>>>>),
          JsonObject(<<<<"1", Str(<<"k">>)>>, <<"0", Num(5)>>>>)}

\* if batch_result: a non-empty object or list
Truthy(answer) == answer.kind = "list" \/ (answer.kind = "dict" /\ answer.items # <<>>)

\* int(str_id) returns
IntParses(str_id) == str_id \in {"0", "1", "9"}
IntOf(str_id) == IF str_id = "0" THEN 0 ELSE IF str_id = "1" THEN 1 ELSE 9

\* target_df = df.head(max_products) if max_products is not None and
\* max_products > 0 else df; indices = target_df.index.tolist()
TargetIndices(df, max_products) ==
    IF max_products > 0 THEN FirstN(df.index, max_products) ELSE df.index

RECURSIVE Chunks(_, _)
\* [indices[i:i + batch_size] for i in range(0, len(indices), batch_size)]
Chunks(indices, batch_size) ==
    IF indices = <<>> THEN <<>>
    ELSE <<FirstN(indices, batch_size)>>
         \o Chunks(SubSeq(indices, batch_size + 1, Len(indices)), batch_size)

\* results_map[idx] = keyword: a dict keeps the place of a key it already has
SetItem(map, idx, keyword) ==
    IF \E n \in 1..Len(map) : map[n][1] = idx
    THEN [n \in 1..Len(map) |-> IF map[n][1] = idx THEN <<idx, keyword>> ELSE map[n]]
    ELSE Append(map, <<idx, keyword>>)

RECURSIVE UpdateMap(_, _)
\* for str_id, keyword in batch_res.items(): ... ; raised tells that keyword.lower()
\* raised on a keyword that is no string, which ends the loop
UpdateMap(map, items) ==
    IF items = <<>> THEN [map |-> map, raised |-> FALSE]
    ELSE LET str_id == Head(items)[1]
             keyword == Head(items)[2]
         IN  IF keyword.t = "num" /\ keyword.v # 0
             THEN [map |-> map, raised |-> TRUE]
             ELSE IF keyword.t = "str" /\ keyword.v # <<>>
                     /\ Lower(keyword.v) \notin {<<"b", "l", "o", "c", "k", "e", "d">>,
                                                 <<"e", "r", "r", "o", "r">>}
                     /\ IntParses(str_id)
                  THEN UpdateMap(SetItem(map, IntOf(str_id), keyword), Tail(items))
                  ELSE UpdateMap(map, Tail(items))

\* df.at[idx, 'Product Keyword'] = keyword: the cell of the row labelled idx, or a
\* new row under that label, its other cells NaN
SetAt(df, idx, keyword) ==
    IF \E n \in 1..Len(df.index) : df.index[n] = idx
    THEN Frame(df.index, df.cols,
               [n \in 1..Len(df.rows) |->
                   IF df.index[n] = idx
                   THEN [c \in SeqToSet(df.cols) |->
                            IF c = ProductKeyword THEN keyword ELSE df.rows[n][c]]
                   ELSE df.rows[n]])
    ELSE Frame(Append(df.index, idx), df.cols,
               Append(df.rows, [c \in SeqToSet(df.cols) |->
                                   IF c = ProductKeyword THEN keyword ELSE Null]))

RECURSIVE ApplyMap(_, _)
\* for idx, keyword in results_map.items(): if keyword: df.at[...] = keyword
ApplyMap(df, map) ==
    IF map = <<>> THEN df
    ELSE ApplyMap(SetAt(df, Head(map)[1], Head(map)[2]), Tail(map))

KwInit ==
    /\ kw_call \in [df : {KeywordFrame(n, with_keyword) :
                            n \in 1..MaxKwRows, with_keyword \in BOOLEAN},
                    max_products : 0..MaxKwRows,
                    batch_size : 1..MaxKwRows,
                    max_workers : 1..2,
                    has_client : BOOLEAN]
    /\ kw_df = NotBuilt
    /\ batches = <<>>
    /\ results_map = <<>>
    /\ kw_errors = <<>>
    /\ gpc = "start"

\* the call up to the submission of the batches: the client, the copy, the keyword
\* column, the chunks
SubmitBatches ==
    /\ gpc = "start"
    /\ IF ~kw_call.has_client
       THEN /\ gpc' = "raised"
            /\ UNCHANGED <<kw_df, batches>>
       ELSE LET df == IF ProductKeyword \in SeqToSet(kw_call.df.cols) THEN kw_call.df
                      ELSE Frame(kw_call.df.index, Append(kw_call.df.cols, ProductKeyword),
                                 [n \in 1..Len(kw_call.df.rows) |->
                                     kw_call.df.rows[n] @@ (ProductKeyword :> Str(<<>>))])
                chunks == Chunks(TargetIndices(df, kw_call.max_products), kw_call.batch_size)
            IN  /\ kw_df' = df
                /\ batches' = [b \in 1..Len(chunks) |->
                                  [chunk |-> chunks[b], status |-> "queued", attempt |-> 0,
                                   result |-> JsonObject(<<>>)]]
                /\ gpc' = "running"
    /\ UNCHANGED <<kw_call, results_map, kw_errors>>

\* a free worker of the pool takes the next submitted batch
StartBatch ==
    /\ gpc = "running"
    /\ \E b \in 1..Len(batches) :
          /\ batches[b].status = "queued"
          /\ \A a \in 1..(b - 1) : batches[a].status # "queued"
          /\ Cardinality({a \in 1..Len(batches) : batches[a].status = "running"})
                 < kw_call.max_workers
          /\ batches' = [batches EXCEPT ![b].status = "running"]
    /\ UNCHANGED <<kw_call, kw_df, results_map, kw_errors, gpc>>

\* one attempt of process_batch_task: the service's answer is returned if it is
\* truthy; after the third attempt {} is returned
AttemptBatch ==
    /\ gpc = "running"
    /\ \E b \in 1..Len(batches) : \E answer \in ServiceAnswers :
          /\ batches[b].status = "running"
          /\ batches' =
                 [batches EXCEPT ![b] =
                     IF answer.kind # "quota" /\ Truthy(answer)
                     THEN [@ EXCEPT !.status = "finished", !.result = answer]
                     ELSE IF @.attempt + 1 = BatchAttempts
                          THEN [@ EXCEPT !.status = "finished", !.attempt = BatchAttempts]
                          ELSE [@ EXCEPT !.attempt = @ + 1]]
    /\ UNCHANGED <<kw_call, kw_df, results_map, kw_errors, gpc>>

\* for future in as_completed(futures): the result of a finished batch goes into
\* results_map; an exception on the way is noted in errors
CollectBatch ==
    /\ gpc = "running"
    /\ \E b \in 1..Len(batches) :
          /\ batches[b].status = "finished"
          /\ batches' = [batches EXCEPT ![b].status = "collected"]
          /\ IF batches[b].result.kind = "list"
             THEN /\ kw_errors' = Append(kw_errors, b)
                  /\ UNCHANGED results_map
             ELSE LET updated == UpdateMap(results_map, batches[b].result.items)
                  IN  /\ results_map' = updated.map
                      /\ kw_errors' = IF updated.raised THEN Append(kw_errors, b)
                                      ELSE kw_errors
    /\ UNCHANGED <<kw_call, kw_df, gpc>>

\* after the pool: the results are applied and the table is returned
ApplyResults ==
    /\ gpc = "running"
    /\ \A b \in 1..Len(batches) : batches[b].status = "collected"
    /\ kw_df' = ApplyMap(kw_df, results_map)
    /\ gpc' = "returned"
    /\ UNCHANGED <<kw_call, batches, results_map, kw_errors>>

KwNext ==
    \/ SubmitBatches /\ UNCHANGED <<keyVars, consVars, peakVars, truePeakVars, msvVars, rowVars, insightVars>>
    \/ StartBatch /\ UNCHANGED <<keyVars, consVars, peakVars, truePeakVars, msvVars, rowVars, insightVars>>
    \/ AttemptBatch /\ UNCHANGED <<keyVars, consVars, peakVars, truePeakVars, msvVars, rowVars, insightVars>>
    \/ CollectBatch /\ UNCHANGED <<keyVars, consVars, peakVars, truePeakVars, msvVars, rowVars, insightVars>>
    \/ ApplyResults /\ UNCHANGED <<keyVars, consVars, peakVars, truePeakVars, msvVars, rowVars, insightVars>>

InitKw == KwInit /\ KeyIdle /\ ConsIdle /\ PeakIdle /\ TruePeakIdle /\ MsvIdle /\ RowIdle /\ InsightIdle

SpecKw == InitKw /\ [][KwNext]_vars

\* the labels of the rows the call processes
ProcessedLabels == SeqToSet(TargetIndices(kw_call.df, kw_call.max_products))

\* the keyword of the n-th row of the table the call was given ('' without the column)
InputKeyword(n) ==
    IF ProductKeyword \in SeqToSet(kw_call.df.cols) THEN kw_call.df.rows[n][ProductKeyword]
    ELSE Str(<<>>)

\* C25: whatever the service answers and in whatever order the batches complete,
\* generate_keywords_batch returns a table with exactly the rows and the index of
\* its input, in which only the Product Keyword cells of the processed rows (the
\* first max_products) can differ from the input: no row added or removed, no other
\* column changed.
C25_KeywordsPlainOverwrite ==
    gpc = "returned" =>
        /\ kw_df.index = kw_call.df.index
        /\ SeqToSet(kw_df.cols) = SeqToSet(kw_call.df.cols) \cup {ProductKeyword}
        /\ \A n \in 1..Len(kw_call.df.index) :
              /\ \A c \in SeqToSet(kw_call.df.cols) \ {ProductKeyword} :
                     kw_df.rows[n][c] = kw_call.df.rows[n][c]
              /\ kw_call.df.index[n] \notin ProcessedLabels =>
                     kw_df.rows[n][ProductKeyword] = InputKeyword(n)

----------------------------------------------------------------------------
(* generate_insights_df on a table of one row.  In the strings of this part a *)
(* month name and a year are single characters.                               *)

CalculatedPeakMonth == Col("Calculated Peak Month")
PeakMonthAvgMSV == Col("Peak Month Avg MSV")

\* s.split(',')[0]
RECURSIVE BeforeComma(_)
BeforeComma(s) ==
    IF s = <<>> \/ Head(s) = "," THEN <<>> ELSE <<Head(s)>> \o BeforeComma(Tail(s))

\* s.split()[0] of a string that does not begin with a blank
RECURSIVE BeforeSpace(_)
BeforeSpace(s) ==
    IF s = <<>> \/ Head(s) \in Whitespace THEN <<>> ELSE <<Head(s)>> \o BeforeSpace(Tail(s))

\* peak_col.isna() | (peak_col.astype(str).str.strip() == '')
BlankPeak(x) == ~notna(x) \/ Strip(AsTypeStr(x)) = <<>>

\* Peak Popularity taken before Peak Seasonality
PeakOfPopularityFirst(df, row) ==
    LET popularity == IF PeakPopularity \in SeqToSet(df.cols) THEN row[PeakPopularity]
                      ELSE Str(<<>>)
    IN  IF PeakSeasonality \in SeqToSet(df.cols) /\ BlankPeak(popularity)
        THEN row[PeakSeasonality]
        ELSE popularity

\* peak_col: Peak Seasonality, or '' without the column; where it is blank and the
\* table has Peak Popularity, Peak Popularity
PeakOf(df, row) ==
    LET seasonality == IF PeakSeasonality \in SeqToSet(df.cols) THEN row[PeakSeasonality]
                       ELSE Str(<<>>)
    IN  IF PeakPopularity \in SeqToSet(df.cols) /\ BlankPeak(seasonality)
        THEN row[PeakPopularity]
        ELSE seasonality

\* primary_month: the first token of peak_col, NaN if it has none, 'Unknown' for a
\* blank peak_col
PrimaryMonth(peak) ==
    LET token == BeforeSpace(Strip(BeforeComma(AsTypeStr(peak))))
    IN  IF BlankPeak(peak) THEN Str(<<"Unknown">>)
        ELSE IF token = <<>> THEN Null
        ELSE Str(token)

\* pd.to_numeric(errors='coerce'), one cell
ToNumeric(x) == IF notna(x) /\ FloatParses(x) THEN Num(FloatOf(x)) ELSE Null

\* the numbers of the row in the columns cols, NaN left out
RECURSIVE NumbersIn(_, _)
NumbersIn(row, cols) ==
    IF cols = <<>> THEN <<>>
    ELSE (IF notna(ToNumeric(row[Head(cols)])) THEN <<ToNumeric(row[Head(cols)]).v>> ELSE <<>>)
         \o NumbersIn(row, Tail(cols))

\* avg_msv before the fallback: (row_sum / row_count).fillna(0).astype(int) over the
\* columns of the primary month that the table has, 0 for no month of the twelve
MonthAverage(df, row, primary) ==
    LET existing == SelectSeq2(MsvColumns(YEARS, VALID_MONTHS),
                               {c \in SeqToSet(df.cols) : primary = Str(<<c[1]>>)})
        numbers == NumbersIn(row, existing)
    IN  IF numbers = <<>> THEN 0 ELSE SumOf(numbers) \div Len(numbers)

\* calculated_avg: the mean over the month columns the table has, NaN counting 0
CalculatedAverage(df, row) ==
    LET existing_msv == SelectSeq2(MsvColumns(YEARS, VALID_MONTHS), SeqToSet(df.cols))
    IN  IF existing_msv = <<>> THEN 0
        ELSE SumOf(NumbersIn(row, existing_msv)) \div Len(existing_msv)

\* df['Product Keyword Avg MSV'] as finalized: the value the table has if it is a
\* number above 0, else calculated_avg
KeywordAverage(df, row) ==
    LET curr == IF ProductKeywordAvgMSV \in SeqToSet(df.cols)
                THEN ToNumeric(row[ProductKeywordAvgMSV]) ELSE Null
    IN  IF notna(curr) /\ curr.v > 0 THEN curr.v ELSE CalculatedAverage(df, row)

generate_insights_df(df) ==
    LET month_of == [i \in 1..Len(df.rows) |-> PrimaryMonth(PeakOf(df, df.rows[i]))]
        keyword_avg == [i \in 1..Len(df.rows) |-> KeywordAverage(df, df.rows[i])]
        avg_msv == [i \in 1..Len(df.rows) |->
                       LET month_avg == MonthAverage(df, df.rows[i], month_of[i])
                       IN  IF month_avg > 0 THEN month_avg ELSE keyword_avg[i]]
    IN  WithColumn(
            WithColumn(
                WithColumn(df, CalculatedPeakMonth, month_of),
                ProductKeywordAvgMSV, [i \in 1..Len(df.rows) |-> Num(keyword_avg[i])]),
            PeakMonthAvgMSV, [i \in 1..Len(df.rows) |-> Num(avg_msv[i])])

\* the strings of the two peak columns
SeasonalityCells == {Null, Str(<<>>), Str(<<" ">>), Str(<<"Jan">>),
                     Str(<<"Dec", ",", " ", "Jan">>)}
PopularityPeakCells == {Null, Str(<<>>), Str(<<"Feb">>), Str(<<"Jan", ",", " ", "Feb">>)}

\* a table of one row: the month columns Jan 2023, Jan 2024 and Feb 2024, and, by
\* choice, Peak Seasonality, Peak Popularity and Product Keyword Avg MSV
InsightTable(optional, jan_2023, jan_2024, feb_2024, seasonality, popularity, average) ==
    LET cols == <<MsvCol("Jan", "2023"), MsvCol("Jan", "2024"), MsvCol("Feb", "2024")>>
                \o SelectSeq2(<<PeakSeasonality, PeakPopularity, ProductKeywordAvgMSV>>, optional)
        cells == (MsvCol("Jan", "2023") :> jan_2023) @@ (MsvCol("Jan", "2024") :> jan_2024)
                 @@ (MsvCol("Feb", "2024") :> feb_2024) @@ (PeakSeasonality :> seasonality)
                 @@ (PeakPopularity :> popularity) @@ (ProductKeywordAvgMSV :> average)
    IN  Table(cols, <<[c \in SeqToSet(cols) |-> cells[c]]>>)

InsightInit ==
    /\ insight_df \in
           {InsightTable(optional, jan_2023, jan_2024, feb_2024, seasonality, popularity, average) :
               optional \in SUBSET {PeakSeasonality, PeakPopularity, ProductKeywordAvgMSV},
               jan_2023 \in MixedCells, jan_2024 \in MixedCells, feb_2024 \in {Null, Num(2)},
               seasonality \in SeasonalityCells, popularity \in PopularityPeakCells,
               average \in {Null, Num(0), Num(3)}}
    /\ insights = NotBuilt
    /\ ipc = "start"

\* insights_df = generate_insights_df(consolidated_df)
GenerateInsights ==
    /\ ipc = "start"
    /\ insights' = generate_insights_df(insight_df)
    /\ ipc' = "done"
    /\ UNCHANGED insight_df

InsightNext == GenerateInsights /\ UNCHANGED <<keyVars, consVars, peakVars, truePeakVars, msvVars, rowVars, kwVars>>

InitInsight == InsightInit /\ KeyIdle /\ ConsIdle /\ PeakIdle /\ TruePeakIdle /\ MsvIdle /\ RowIdle /\ KwIdle

SpecInsight == InitInsight /\ [][InsightNext]_vars

\* the row of the table and the row generate_insights_df made of it
InsightRow == insight_df.rows[1]
InsightResult == insights.rows[1]

\* the value of a peak column of the row, blank without the column
PeakValue(col) == IF col \in ColumnSet(insight_df) THEN InsightRow[col] ELSE Null
NonBlank(x) == notna(x) /\ Strip(str(x)) # <<>>

\* m is the first token of the string of x
FirstTokenIs(x, m) ==
    LET text == SkipSpace(str(x))
    IN  text # <<>> /\ text[1] = m /\ (Len(text) = 1 \/ text[2] \in {",", " "})

\* the numbers of month m over 2023-2025 that the row has
MonthNumbers(m) ==
    {c \in ColumnSet(insight_df) :
        /\ c \in {MsvCol(m, YEARS[y]) : y \in 1..3}
        /\ notna(InsightRow[c])
        /\ FloatParses(InsightRow[c])}

RECURSIVE SumCells(_)
SumCells(cs) ==
    IF cs = {} THEN 0
    ELSE LET c == CHOOSE x \in cs : TRUE IN FloatOf(InsightRow[c]) + SumCells(cs \ {c})

\* the overall average of the product: its Product Keyword Avg MSV if that is a
\* number above 0, else the mean of its month columns, a missing value counting 0
OverallAverage ==
    LET given == PeakValue(ProductKeywordAvgMSV)
        months == MonthColumns \cap ColumnSet(insight_df)
    IN  IF notna(given) /\ FloatParses(given) /\ FloatOf(given) > 0 THEN FloatOf(given)
        ELSE SumCells({c \in months : notna(InsightRow[c]) /\ FloatParses(InsightRow[c])})
                 \div Cardinality(months)

C30_Fallback ==
    /\ ipc = "done"
    /\ PeakValue(PeakSeasonality) = Str(<<"Dec", ",", " ", "Jan">>)
    /\ ProductKeywordAvgMSV \notin ColumnSet(insight_df)
    /\ InsightRow[MsvCol("Jan", "2023")] = Num(2)
    /\ InsightRow[MsvCol("Jan", "2024")] = Num(2)
    /\ InsightRow[MsvCol("Feb", "2024")] = Num(2)
    /\ InsightResult[CalculatedPeakMonth] = Str(<<"Dec">>)
    /\ InsightResult[PeakMonthAvgMSV] = Num(2)

----------------------------------------------------------------------------
(* create_product_key on its own *)

RECURSIVE StringsUpTo(_)
StringsUpTo(n) ==
    IF n = 0 THEN {<<>>}
    ELSE LET shorter == StringsUpTo(n - 1)
         IN  shorter \cup {Append(s, c) : s \in {x \in shorter : Len(x) = n - 1}, c \in Alphabet}

\* what a title cell can hold: a string, NaN, or a number
TitleInputs == {Str(s) : s \in StringsUpTo(MaxLen)} \cup {Null, Num(1)}

KeyInit ==
    /\ product_title \in TitleInputs
    /\ key = NotRun
    /\ key_again = NotRun
    /\ kpc = "start"

\* key = create_product_key(title)
CreateKey ==
    /\ kpc = "start"
    /\ key' = create_product_key(product_title)
    /\ kpc' = "keyed"
    /\ UNCHANGED <<product_title, key_again>>

\* create_product_key applied to a key it returned
CreateKeyAgain ==
    /\ kpc = "keyed"
    /\ key_again' = create_product_key(Str(key))
    /\ kpc' = "rekeyed"
    /\ UNCHANGED <<product_title, key>>

KeyNext ==
    \/ CreateKey /\ UNCHANGED <<consVars, peakVars, truePeakVars, msvVars, rowVars, kwVars, insightVars>>
    \/ CreateKeyAgain /\ UNCHANGED <<consVars, peakVars, truePeakVars, msvVars, rowVars, kwVars, insightVars>>

InitKey == KeyInit /\ ConsIdle /\ PeakIdle /\ TruePeakIdle /\ MsvIdle /\ RowIdle /\ KwIdle /\ InsightIdle

SpecKey == InitKey /\ [][KeyNext]_vars

\* C21: create_product_key returns the empty string for a null or non-string input;
\* for a string the key holds only a-z, 0-9 and spaces, does not begin or end with a
\* space, and has no two spaces in a row.  Every input gets a key.
C21_KeyTotal ==
    kpc \in {"keyed", "rekeyed"} =>
        /\ product_title.t # "str" => key = <<>>
        /\ \A i \in 1..Len(key) : key[i] \in LowerLetters \cup Digits \cup {" "}
        /\ key # <<>> => key[1] # " " /\ key[Len(key)] # " "
        /\ \A i \in 1..(Len(key) - 1) : ~(key[i] = " " /\ key[i + 1] = " ")

\* a title with upper case and a run of a tab and a space inside was keyed
C21_Witness ==
    /\ kpc = "keyed"
    /\ product_title = Str(<<"A", "\t", " ", "1">>)
    /\ key = <<"a", " ", "1">>

\* C5: normalizing a key again gives the same key:
\* create_product_key(create_product_key(s)) = create_product_key(s).
C5_KeyIdempotent == kpc = "rekeyed" => key_again = key

\* a title with upper case, punctuation and a whitespace run has been keyed twice
C5_Witness ==
    /\ kpc = "rekeyed"
    /\ product_title = Str(<<"A", "\t", " ">>) \/ product_title = Str(<<"-", "A", " ">>)
    /\ key = <<"a">>
    /\ key_again = <<"a">>

====
